---- MODULE Spec2Model ----
(***************************************************************************)
(* Route-planning engine of the NED voyage dashboard.                      *)
(*                                                                         *)
(* Fixed-point conventions used throughout:                                *)
(*   - latitudes and longitudes are integers in tenths of a degree         *)
(*     (450 is 45.0 degrees);                                              *)
(*   - distances are integers in thousandths of a nautical mile;           *)
(*   - values the code rounds to 2 decimals are integers in hundredths,    *)
(*     values rounded to 1 decimal are integers in tenths;                 *)
(*   - unrounded hours are kept as the exact quotient (numerator in        *)
(*     thousandths of a NM, denominator the speed in knots).               *)
(* A line of waypoint text is a sequence of tokens: numeric literals,      *)
(* words and the punctuation marks "," and ";" (white space separates      *)
(* adjacent tokens and is otherwise not represented).  The blank line is   *)
(* the empty token sequence.                                               *)
(***************************************************************************)
EXTENDS Integers, Sequences, FiniteSets, TLC

VARIABLES
    routes,      \* data["routes"] as stored in ned_data.json
    voyages,     \* data["voyages"] as stored in ned_data.json
    locations,   \* locations.json: ordered entries key -> {lat, lon, display}
    pc,          \* pc[p]: position of request p
    form,        \* form[p]: the submitted form and session of request p
    data,        \* data[p]: the request's copy returned by load_data()
    resolver,    \* resolver[p]: the LocalLocationsResolver of the request
    build,       \* build[p]: locals of build_route_from_text
    outcome,     \* outcome[p]: calc_result / calc_error of route_planner
    calcArgs,    \* arguments of a direct compute_route_calculation call
    calcRet,     \* what that call returned or raised
    readable,    \* whether locations.json exists and can be opened
    trace,       \* trace[p]: the stages request p has run, in order
    warnRet,     \* what a direct compute_route_warnings call returned
    coordCall,   \* a direct parse_single_coord call: arguments and outcome
    pairCall,    \* a direct parse_waypoints call: arguments, locals, outcome
    call,        \* a direct call of a pure function: name, arguments, outcome
    chat         \* route["chat"] of the route the chat calls work on

\* the state of the direct calls
direct == <<calcArgs, calcRet, warnRet, coordCall, pairCall, call, chat>>

vars == <<routes, voyages, locations, pc, form, data, resolver, build,
          outcome, readable, trace, direct>>

Procs == {1, 2}

\* Optional values: None is the empty sequence, a present value x is <<x>>
None == << >>
Some(x) == <<x>>

----------------------------------------------------------------------------
(* Bounds *)

MaxLines == 3      \* lines of waypoint text in a direct build call
MaxPoints == 3     \* points in a direct compute_route_calculation call
MaxRoutes == 2     \* stored routes

----------------------------------------------------------------------------
(* Tokens and lines of waypoint text *)

Num(sign, tenths) == [t |-> "num", s |-> sign, n |-> tenths]
Word(w) == [t |-> "word", s |-> w, n |-> 0]
Punct(c) == [t |-> "punct", s |-> c, n |-> 0]

Blank == << >>

LineDec1 == <<Num("", 450), Punct(","), Num("", 290)>>    \* "45.0, 29.0"
LineDec2 == <<Num("", 440), Num("", 280)>>                \* "44.0 28.0"
LineDec3 == <<Num("", 410), Punct(";"), Num("", 290)>>    \* "41.0;29.0"
LineOutLon == <<Num("", 450), Punct(","), Num("-", 1810)>> \* "45.0, -181.0"
LineOutBoth == <<Num("", 910), Punct(","), Num("", 1810)>> \* "91.0, 181.0"
LinePlus == <<Num("+", 450), Punct(","), Num("", 290)>>   \* "+45.0, 29.0"
LineDM == <<Num("", 440), Num("", 102), Word("N"), Punct(","),
            Num("", 280), Num("", 390), Word("E")>>       \* "44 10.2 N, 28 39.0 E"
\* "44.0, 28, 39.0 E"
LineTwoCommas == <<Num("", 440), Punct(","), Num("", 280), Punct(","),
                   Num("", 390), Word("E")>>
LineNameUpper == <<Word("CONSTANTA")>>
LineFar == <<Word("Farpoint")>>
LineTypo == <<Word("Constnta")>>
LineUnknown == <<Word("Atlantis")>>

Lines == {Blank, LineDec1, LineDec2, LineOutLon, LineOutBoth, LinePlus,
          LineDM, LineNameUpper, LineFar, LineTypo, LineUnknown}

\* str.lower() on the words that occur
LowerWord(w) ==
    CASE w = "CONSTANTA" -> "constanta"
      [] w = "Constanta" -> "constanta"
      [] w = "Farpoint" -> "farpoint"
      [] w = "Constnta" -> "constnta"
      [] w = "Atlantis" -> "atlantis"
      [] w = "N" -> "n"
      [] w = "E" -> "e"
      [] OTHER -> w

Lower(line) ==
    [i \in DOMAIN line |->
        IF line[i].t = "word" THEN Word(LowerWord(line[i].s)) ELSE line[i]]

SeqsUpTo(S, n) == UNION {[1..k -> S] : k \in 0..n}

----------------------------------------------------------------------------
(* ned/utils/parsing.py *)

\* a split that keeps the blank lines (and so numbers them)
split_waypoints_keep_blank(text) == text

split_waypoints(text) ==
    IF text = << >> THEN << >>
    ELSE SelectSeq(text, LAMBDA ln : ln # Blank)

NumVal(tok) == IF tok.s = "-" THEN 0 - tok.n ELSE tok.n

\* -?\d+(?:\.\d+)?  : a numeric literal with no sign or a minus sign
IsPlainNum(tok) == tok.t = "num" /\ tok.s \in {"", "-"}

\* ^\s*LAT\s*[,;\s]\s*LON\s*$
CoordReMatches(raw) ==
    \/ /\ Len(raw) = 2
       /\ IsPlainNum(raw[1]) /\ IsPlainNum(raw[2])
    \/ /\ Len(raw) = 3
       /\ IsPlainNum(raw[1]) /\ IsPlainNum(raw[3])
       /\ raw[2].t = "punct" /\ raw[2].s \in {",", ";"}

\* a parse that takes any literal float() takes, "+45.0" included
parse_lat_lon_any_sign(raw) ==
    IF /\ Len(raw) \in {2, 3}
       /\ raw[1].t = "num" /\ raw[Len(raw)].t = "num"
       /\ Len(raw) = 3 => (raw[2].t = "punct" /\ raw[2].s \in {",", ";"})
    THEN Some([lat |-> NumVal(raw[1]), lon |-> NumVal(raw[Len(raw)])])
    ELSE None

parse_lat_lon(raw) ==
    IF ~CoordReMatches(raw) THEN None
    ELSE Some([lat |-> NumVal(raw[1]), lon |-> NumVal(raw[Len(raw)])])

----------------------------------------------------------------------------
(* ned/utils/validation.py *)

is_valid_lat(lat) == -900 <= lat /\ lat <= 900

\* a check of the upper bound alone
is_valid_lon_upper_only(lon) == lon <= 1800

is_valid_lon(lon) == -1800 <= lon /\ lon <= 1800

ValidationError(field, message) == [field |-> field, message |-> message]

validate_lat_lon(lat, lon) ==
    (IF ~is_valid_lat(lat)
        THEN <<ValidationError("lat", "Latitude must be between -90 and 90.")>>
        ELSE << >>)
    \o
    (IF ~is_valid_lon(lon)
        THEN <<ValidationError("lon", "Longitude must be between -180 and 180.")>>
        ELSE << >>)

----------------------------------------------------------------------------
(* app.py: the coordinate parser (decimal, DM and DMS tokens).  Its values  *)
(* are integers in 1/36000 of a degree, so that tenths of a minute and     *)
(* tenths of a second are exact: 36000 is one degree.                      *)

Abs(x) == IF x < 0 THEN 0 - x ELSE x

\* str.upper() on the words that occur
UpperWord(w) ==
    CASE w = "n" -> "N"
      [] w = "s" -> "S"
      [] w = "e" -> "E"
      [] w = "w" -> "W"
      [] OTHER -> w

\* negated for the southern hemisphere only
dms_to_decimal_south_only(deg, minutes, seconds, hemi) ==
    LET value == Abs(deg) * 3600 + minutes * 60 + seconds
    IN IF hemi = "S" THEN 0 - value ELSE value

\* arguments in tenths (of a degree, of a minute, of a second)
dms_to_decimal(deg, minutes, seconds, hemi) ==
    LET value == Abs(deg) * 3600 + minutes * 60 + seconds
    IN IF hemi \in {"S", "W"} THEN 0 - value ELSE value

\* only latitudes are checked
CoordInRangeLatOnly(val, coord_type) ==
    CASE coord_type = "lat" -> -90 * 36000 <= val /\ val <= 90 * 36000
      [] OTHER -> TRUE

CoordInRange(val, coord_type) ==
    CASE coord_type = "lat" -> -90 * 36000 <= val /\ val <= 90 * 36000
      [] coord_type = "lon" -> -180 * 36000 <= val /\ val <= 180 * 36000
      [] OTHER -> TRUE

CoordOk(val) == [ok |-> TRUE, val |-> val, err |-> ""]
CoordErr(e) == [ok |-> FALSE, val |-> 0, err |-> e]

\* _validate_coord_range, then return val; the message of the ValueError
\* holds the value
RangeChecked(val, coord_type) ==
    IF CoordInRange(val, coord_type) THEN CoordOk(val)
    ELSE [ok |-> FALSE, val |-> val, err |-> "range"]

\* any word passes for a hemisphere letter
IsHemisphereAnyWord(part) == part.t = "word"

\* hemi in ("N", "S", "E", "W"), on the upper-cased text
IsHemisphere(part) ==
    part.t = "word" /\ UpperWord(part.s) \in {"N", "S", "E", "W"}

parse_single_coord(token, coord_type) ==
    IF Len(token) = 1 /\ token[1].t = "num"
    THEN RangeChecked(NumVal(token[1]) * 3600, coord_type)
    ELSE
      LET parts == SelectSeq(token, LAMBDA x : x # Punct(","))
          hemi == parts[Len(parts)]
          nums == SubSeq(parts, 1, Len(parts) - 1)
          numeric == \A i \in DOMAIN nums : nums[i].t = "num"
      IN IF Len(parts) < 3 THEN CoordErr("format")
         ELSE IF ~IsHemisphere(hemi)
         THEN CoordErr("hemisphere")
         ELSE IF Len(nums) = 2
         THEN IF ~numeric THEN CoordErr("float")
              ELSE RangeChecked(
                     dms_to_decimal(NumVal(nums[1]), NumVal(nums[2]), 0,
                                    UpperWord(hemi.s)), coord_type)
         ELSE IF Len(nums) = 3
         THEN IF ~numeric THEN CoordErr("float")
              ELSE RangeChecked(
                     dms_to_decimal(NumVal(nums[1]), NumVal(nums[2]),
                                    NumVal(nums[3]), UpperWord(hemi.s)), coord_type)
         ELSE CoordErr("format")

\* the position of the last comma
LastComma(line) ==
    IF \E i \in DOMAIN line : line[i] = Punct(",")
    THEN CHOOSE i \in DOMAIN line :
            line[i] = Punct(",") /\ \A j \in (i + 1)..Len(line) : line[j] # Punct(",")
    ELSE 0

\* line.split(",", 1): the position of the first comma, 0 if there is none
FirstComma(line) ==
    IF \E i \in DOMAIN line : line[i] = Punct(",")
    THEN CHOOSE i \in DOMAIN line :
            line[i] = Punct(",") /\ \A j \in 1..(i - 1) : line[j] # Punct(",")
    ELSE 0

\* one line of parse_waypoints: split at the first comma, parse both tokens
parse_pair_line(line) ==
    LET c == FirstComma(line)
        lat == parse_single_coord(SubSeq(line, 1, c - 1), "lat")
        lon == parse_single_coord(SubSeq(line, c + 1, Len(line)), "lon")
    IN IF c = 0 THEN [ok |-> FALSE, lat |-> 0, lon |-> 0, err |-> "comma"]
       ELSE IF ~lat.ok THEN [ok |-> FALSE, lat |-> 0, lon |-> 0, err |-> lat.err]
       ELSE IF ~lon.ok THEN [ok |-> FALSE, lat |-> 0, lon |-> 0, err |-> lon.err]
       ELSE [ok |-> TRUE, lat |-> lat.val, lon |-> lon.val, err |-> ""]

\* text.replace(";", "\n").splitlines() on one line: its pieces between
\* semicolons, the empty ones dropped
RECURSIVE SplitSemi(_)
SplitSemi(line) ==
    IF line = << >> THEN << >>
    ELSE IF \E i \in DOMAIN line : line[i] = Punct(";")
    THEN LET c == CHOOSE i \in DOMAIN line :
                     line[i] = Punct(";") /\ \A j \in 1..(i - 1) : line[j] # Punct(";")
             head == SubSeq(line, 1, c - 1)
         IN (IF head = << >> THEN << >> ELSE <<head>>)
            \o SplitSemi(SubSeq(line, c + 1, Len(line)))
    ELSE <<line>>

\* raw_lines of parse_waypoints
RECURSIVE RawLinesOf(_)
RawLinesOf(text) ==
    IF text = << >> THEN << >>
    ELSE SplitSemi(Head(text)) \o RawLinesOf(Tail(text))

\* parse_waypoints up to its loop: the empty-text check and raw_lines
PairEnter(text) ==
    IF \A k \in DOMAIN text : text[k] = Blank
    THEN [text |-> text, raw_lines |-> << >>, i |-> 0, points |-> << >>,
          status |-> "raised", line |-> 0, err |-> "empty"]
    ELSE [text |-> text, raw_lines |-> RawLinesOf(text), i |-> 0,
          points |-> << >>, status |-> "loop", line |-> 0, err |-> ""]

\* one iteration of the loop of parse_waypoints
PairLoopBody(c) ==
    LET i == c.i + 1
        r == parse_pair_line(c.raw_lines[i])
    IN IF r.ok
       THEN [c EXCEPT !.i = i,
                      !.points = Append(@, [lat |-> r.lat, lon |-> r.lon])]
       ELSE [c EXCEPT !.i = i, !.status = "raised", !.line = i, !.err = r.err]

\* after the loop: at least 2 points, or ValueError
PairLeave(c) ==
    IF Len(c.points) < 2
    THEN [c EXCEPT !.status = "raised", !.line = 0, !.err = "count"]
    ELSE [c EXCEPT !.status = "returned"]

----------------------------------------------------------------------------
(* location_store.py: the locations.json file *)

LocConstanta == [key |-> <<Word("constanta")>>, lat |-> 442, lon |-> 286,
                 display |-> <<Word("Constanta")>>]
LocFarpoint == [key |-> <<Word("farpoint")>>, lat |-> 950, lon |-> 286,
                display |-> <<Word("Farpoint")>>]

\* _norm: strip, lower (runs of white space are already single separators)
Norm(name) == Lower(name)

KeyIndex(locs, key) ==
    IF \E i \in DOMAIN locs : locs[i].key = key
    THEN CHOOSE i \in DOMAIN locs :
            locs[i].key = key /\ \A j \in 1..(i - 1) : locs[j].key # key
    ELSE 0

\* locs[key] = {...}: an existing key keeps its place, a new one goes last
add_location(locs, name, lat, lon, display) ==
    LET key == Norm(name)
        rec == [key |-> key, lat |-> lat, lon |-> lon,
                display |-> IF display # << >> THEN display ELSE name]
        k == KeyIndex(locs, key)
    IN IF k = 0 THEN Append(locs, rec) ELSE [locs EXCEPT ![k] = rec]

delete_location(locs, name) ==
    SelectSeq(locs, LAMBDA e : e.key # Norm(name))

----------------------------------------------------------------------------
(* app.py: LocalLocationsResolver *)

\* suggest_fails is FALSE for a LocalLocationsResolver: once resolve has
\* returned, its suggest reads no file and does not raise
NewResolver ==
    [loaded |-> FALSE, items |-> << >>, resolve_calls |-> << >>,
     suggest_fails |-> FALSE, loads |-> 0]

\* an implementation of the LocationResolver protocol over the same
\* directory whose suggest raises (the directory cannot be reached any more)
FlakyResolver == [NewResolver EXCEPT !.suggest_fails = TRUE]

\* the file is a dict name -> {lat, lon, ...}: third branch of _load_locations
LoadLocations(file) ==
    [i \in DOMAIN file |->
        [name |-> file[i].key, lat |-> file[i].lat, lon |-> file[i].lon]]

\* a resolver that reads the file on every call
EnsureLoadedAlways(r, file) ==
    [r EXCEPT !.loaded = TRUE, !.items = LoadLocations(file), !.loads = @ + 1]

\* _ensure_loaded; loads counts the calls of _load_locations
EnsureLoaded(r, file) ==
    IF r.loaded THEN r
    ELSE [r EXCEPT !.loaded = TRUE, !.items = LoadLocations(file), !.loads = @ + 1]

\* first item whose lower-cased name equals the lower-cased query
ResolveIn(items, name) ==
    LET q == Lower(name)
        hits == {i \in DOMAIN items : Lower(items[i].name) = q}
    IN IF q = << >> \/ hits = {} THEN None
       ELSE LET k == CHOOSE i \in hits : \A j \in hits : i <= j
            IN Some([lat |-> items[k].lat, lon |-> items[k].lon])

\* "q in n.lower()" for the words that occur
IsSubstring(q, n) == q = n

\* difflib ratio >= 0.6 for the words that occur
IsCloseMatch(q, n) ==
    \/ q = n
    \/ <<q, n>> \in {<<"constnta", "constanta">>, <<"constanta", "constnta">>}

LineRel(R(_, _), q, n) ==
    /\ Len(q) = 1 /\ Len(n) = 1
    /\ q[1].t = "word" /\ n[1].t = "word"
    /\ R(q[1].s, n[1].s)

Take(s, k) == IF Len(s) <= k THEN s ELSE SubSeq(s, 1, k)

InSeq(x, s) == \E i \in DOMAIN s : s[i] = x

SuggestIn(items, query, limit) ==
    LET q == Lower(query)
        names == [i \in DOMAIN items |-> items[i].name]
        nonempty == SelectSeq(names, LAMBDA n : n # << >>)
        contains == Take(SelectSeq(nonempty,
                        LAMBDA n : LineRel(IsSubstring, q, Lower(n))), limit)
        rest == Take(SelectSeq(nonempty,
                        LAMBDA n : LineRel(IsCloseMatch, q, n)),
                     limit - Len(contains))
        out == contains \o SelectSeq(rest, LAMBDA x : ~InSeq(x, contains))
    IN IF q = << >> THEN << >>
       ELSE IF Len(contains) >= limit THEN contains
       ELSE Take(out, limit)

----------------------------------------------------------------------------
(* ned/services/route_service.py *)

Waypoint(label, lat, lon) == [label |-> label, lat |-> lat, lon |-> lon]

\* f"WP{idx}"
WPLabel(idx) == [kind |-> "WP", n |-> idx, text |-> << >>]
\* label=raw
RawLabel(raw) == [kind |-> "text", n |-> 0, text |-> raw]

\* only the first validation error of the line is reported
format_first_validation_error(idx, raw, v) ==
    <<[line |-> idx, field |-> v[1].field, message |-> v[1].message,
       raw |-> raw, suggestions |-> << >>]>>

\* f"[Line {idx}] {e.message} (input: '{raw}')" for each e in v
format_validation_errors(idx, raw, v) ==
    [k \in DOMAIN v |->
        [line |-> idx, field |-> v[k].field, message |-> v[k].message,
         raw |-> raw, suggestions |-> << >>]]

UnknownLocationError(idx, raw, suggestions) ==
    [line |-> idx, field |-> "location",
     message |-> IF suggestions # << >>
                 THEN "Unknown location. Did you mean"
                 ELSE "Unknown location or invalid coordinates",
     raw |-> raw, suggestions |-> suggestions]

NewBuild(text) ==
    [raw_points |-> split_waypoints(text), i |-> 0,
     waypoints |-> << >>, errors |-> << >>, warnings |-> << >>]

\* "1) Try coords": the body of the loop when parse_lat_lon matched
\* a coordinate line that fails validation is reported and kept as well
CoordBranchKeepsInvalid(b, idx, raw, ll) ==
    LET v == validate_lat_lon(ll.lat, ll.lon)
    IN [b EXCEPT !.i = idx,
                 !.errors = @ \o format_validation_errors(idx, raw, v),
                 !.waypoints = Append(@, Waypoint(WPLabel(idx), ll.lat, ll.lon))]

CoordBranch(b, idx, raw, ll) ==
    LET v == validate_lat_lon(ll.lat, ll.lon)
    IN IF v # << >>
       THEN [b EXCEPT !.i = idx,
                      !.errors = @ \o format_validation_errors(idx, raw, v)]
       ELSE [b EXCEPT !.i = idx,
                      !.waypoints = Append(@, Waypoint(WPLabel(idx), ll.lat, ll.lon))]

\* "2) Try name (local)": the body of the loop after resolver.resolve(raw)
NameBranch(b, idx, raw, suggestions, resolved) ==
    IF resolved = None
    THEN [b EXCEPT !.i = idx,
                   !.errors = Append(@,
                        UnknownLocationError(idx, raw, suggestions))]
    ELSE LET v == validate_lat_lon(resolved[1].lat, resolved[1].lon)
         IN IF v # << >>
            THEN [b EXCEPT !.i = idx,
                           !.errors = @ \o format_validation_errors(idx, raw, v)]
            ELSE [b EXCEPT !.i = idx,
                           !.waypoints = Append(@,
                                Waypoint(RawLabel(raw), resolved[1].lat, resolved[1].lon))]

\* suggestions = resolver.suggest(raw, limit=3) or [] inside try / except
\* Exception: an exception of suggest leaves suggestions empty
Suggestions(r, items, raw) ==
    IF r.suggest_fails THEN << >> ELSE SuggestIn(items, raw, 3)

\* one iteration of "for idx, rp in enumerate(raw_points, start=1)":
\* the locals and the resolver after it (file is locations.json as it is read
\* if this iteration is the first to need the resolver, canRead whether it
\* can be opened), whether the iteration raised, and the stages it ran
LoopBody(b, r, file, canRead) ==
    LET idx == b.i + 1
        raw == b.raw_points[idx]
        ll == parse_lat_lon(raw)
        r1 == EnsureLoaded(r, file)
        resolved == ResolveIn(r1.items, raw)
    IN IF raw = Blank
       THEN [b |-> [b EXCEPT !.i = idx], r |-> r, raised |-> FALSE,
             stages |-> << >>]
       ELSE IF ll # None
       THEN [b |-> CoordBranch(b, idx, raw, ll[1]), r |-> r, raised |-> FALSE,
             stages |-> <<"Parse", "Validate">>]
       ELSE IF ~r.loaded /\ ~canRead
       THEN [b |-> b, r |-> r, raised |-> TRUE,
             stages |-> <<"Parse", "Resolve", "resolve raised">>]
       ELSE [b |-> NameBranch(b, idx, raw, Suggestions(r, r1.items, raw), resolved),
             r |-> [r1 EXCEPT !.resolve_calls = Append(@, idx)],
             raised |-> FALSE,
             stages |-> <<"Parse", "Resolve">> \o
                        (IF resolved # None THEN <<"Validate">>
                         ELSE IF r.suggest_fails THEN <<"suggest raised">>
                         ELSE << >>)]

\* a loop that gives up at the first line that fails
BuildLineFailFast(p) ==
    /\ pc[p] = "build_loop"
    /\ build[p].i < Len(build[p].raw_points)
    /\ LET nxt == LoopBody(build[p], resolver[p], locations, readable)
       IN /\ build' = [build EXCEPT ![p] =
                        IF nxt.b.errors # build[p].errors
                        THEN [nxt.b EXCEPT !.i = Len(build[p].raw_points)]
                        ELSE nxt.b]
          /\ resolver' = [resolver EXCEPT ![p] = nxt.r]
          /\ trace' = [trace EXCEPT ![p] = @ \o nxt.stages]
          /\ pc' = [pc EXCEPT ![p] = IF nxt.raised THEN "build_raised" ELSE @]
    /\ UNCHANGED <<routes, voyages, locations, form, data, outcome,
                   readable, direct>>

\* errors kept in a list at module level, shared by the calls in progress
BuildLineSharedErrors(p) ==
    /\ pc[p] = "build_loop"
    /\ build[p].i < Len(build[p].raw_points)
    /\ LET nxt == LoopBody(build[p], resolver[p], locations, readable)
           added == SubSeq(nxt.b.errors, Len(build[p].errors) + 1, Len(nxt.b.errors))
       IN /\ build' = [q \in Procs |->
                         IF q = p THEN nxt.b
                         ELSE IF pc[q] = "build_loop"
                         THEN [build[q] EXCEPT !.errors = @ \o added]
                         ELSE build[q]]
          /\ resolver' = [resolver EXCEPT ![p] = nxt.r]
          /\ trace' = [trace EXCEPT ![p] = @ \o nxt.stages]
          /\ pc' = [pc EXCEPT ![p] = IF nxt.raised THEN "build_raised" ELSE @]
    /\ UNCHANGED <<routes, voyages, locations, form, data, outcome,
                   readable, direct>>

BuildLine(p) ==
    /\ pc[p] = "build_loop"
    /\ build[p].i < Len(build[p].raw_points)
    /\ LET nxt == LoopBody(build[p], resolver[p], locations, readable)
       IN /\ build' = [build EXCEPT ![p] = nxt.b]
          /\ resolver' = [resolver EXCEPT ![p] = nxt.r]
          /\ trace' = [trace EXCEPT ![p] = @ \o nxt.stages]
          /\ pc' = [pc EXCEPT ![p] = IF nxt.raised THEN "build_raised" ELSE @]
    /\ UNCHANGED <<routes, voyages, locations, form, data, outcome,
                   readable, direct>>

StructuralWarning == "Add at least 2 waypoints to build a route."

\* the warning given whenever fewer than 2 waypoints were resolved
BuildReturnWarnAlways(p) ==
    /\ pc[p] = "build_loop"
    /\ build[p].i = Len(build[p].raw_points)
    /\ build' = [build EXCEPT ![p].warnings =
                    IF Len(build[p].waypoints) < 2
                    THEN Append(@, StructuralWarning) ELSE @]
    /\ pc' = [pc EXCEPT ![p] = "build_ret"]
    /\ UNCHANGED <<routes, voyages, locations, form, data, resolver, outcome,
                   readable, trace, direct>>

\* after the loop: the structural warning, then return
BuildReturn(p) ==
    /\ pc[p] = "build_loop"
    /\ build[p].i = Len(build[p].raw_points)
    /\ build' = [build EXCEPT ![p].warnings =
                    IF Len(build[p].waypoints) < 2 /\ build[p].errors = << >>
                    THEN Append(@, StructuralWarning) ELSE @]
    /\ pc' = [pc EXCEPT ![p] = "build_ret"]
    /\ UNCHANGED <<routes, voyages, locations, form, data, resolver, outcome,
                   readable, trace, direct>>

\* entry of build_route_from_text(text, resolver)
BuildCall(p) ==
    /\ pc[p] = "build_call"
    /\ build' = [build EXCEPT ![p] = NewBuild(form[p].waypoints)]
    /\ pc' = [pc EXCEPT ![p] = "build_loop"]
    /\ UNCHANGED <<routes, voyages, locations, form, data, resolver, outcome,
                   readable, trace, direct>>

----------------------------------------------------------------------------
(* app.py: navigation calculations.  haversine_nm and bearing_deg are the  *)
(* code's functions tabulated on the points that occur, the distance to    *)
(* 0.001 NM and the bearing to 0.001 degree.                               *)

Point(lat, lon) == [lat |-> lat, lon |-> lon]

GridPoints == {Point(450, 290), Point(440, 280), Point(442, 286), Point(410, 290)}

\* points of a second grid, with a pole, the 180th meridian and antipodes
NavPoints ==
    {Point(lat, lon) : lat \in {-25, 25, 900}, lon \in {-1800, -900, 0}}

\* <<lat1, lon1, lat2, lon2, haversine_nm, brng, brng + 360>> for the pairs
\* of GridPoints and the pairs of NavPoints: haversine_nm is -1 where
\* math.sqrt(1 - a) raises "math domain error" (a > 1); brng is
\* math.degrees(math.atan2(y, x)) and brng + 360 the floating-point sum,
\* both cut to 0.001 degree
NavTable ==
    { <<450, 290, 450, 290, 0, 0, 360000>>,
      <<450, 290, 440, 280, 73746, -144151, 215849>>,
      <<450, 290, 442, 286, 50985, -160263, 199737>>,
      <<450, 290, 410, 290, 240162, 180000, 540000>>,
      <<440, 280, 450, 290, 73746, 35148, 395148>>,
      <<440, 280, 440, 280, 0, 0, 360000>>,
      <<440, 280, 442, 286, 28521, 64892, 424892>>,
      <<440, 280, 410, 290, 185477, 165852, 525852>>,
      <<442, 286, 450, 290, 50985, 19456, 379456>>,
      <<442, 286, 440, 280, 28521, -114691, 245309>>,
      <<442, 286, 442, 286, 0, 0, 360000>>,
      <<442, 286, 410, 290, 192940, 174606, 534606>>,
      <<410, 290, 450, 290, 240162, 0, 360000>>,
      <<410, 290, 440, 280, 185477, -13472, 346528>>,
      <<410, 290, 442, 286, 192940, -5123, 354877>>,
      <<410, 290, 410, 290, 0, 0, 360000>>,
      <<-25, -1800, -25, -1800, 0, 0, 360000>>,
      <<-25, -1800, -25, -900, 5397096, 92497, 452497>>,
      <<-25, -1800, -25, 0, 10507080, 179999, 539999>>,
      <<-25, -1800, 25, -1800, 300202, 0, 360000>>,
      <<-25, -1800, 25, -900, 5410186, 87502, 447502>>,
      <<-25, -1800, 25, 0, -1, 90000, 450000>>,
      <<-25, -1800, 900, -1800, 5553742, 0, 360000>>,
      <<-25, -1800, 900, -900, 5553742, 0, 360000>>,
      <<-25, -1800, 900, 0, 5553742, 0, 360000>>,
      <<-25, -900, -25, -1800, 5397096, -92498, 267502>>,
      <<-25, -900, -25, -900, 0, 0, 360000>>,
      <<-25, -900, -25, 0, 5397096, 92497, 452497>>,
      <<-25, -900, 25, -1800, 5410186, -87503, 272497>>,
      <<-25, -900, 25, -900, 300202, 0, 360000>>,
      <<-25, -900, 25, 0, 5410186, 87502, 447502>>,
      <<-25, -900, 900, -1800, 5553742, -1, 360000>>,
      <<-25, -900, 900, -900, 5553742, 0, 360000>>,
      <<-25, -900, 900, 0, 5553742, 0, 360000>>,
      <<-25, 0, -25, -1800, 10507080, -180000, 180000>>,
      <<-25, 0, -25, -900, 5397096, -92498, 267502>>,
      <<-25, 0, -25, 0, 0, 0, 360000>>,
      <<-25, 0, 25, -1800, -1, -90000, 270000>>,
      <<-25, 0, 25, -900, 5410186, -87503, 272497>>,
      <<-25, 0, 25, 0, 300202, 0, 360000>>,
      <<-25, 0, 900, -1800, 5553742, -1, 360000>>,
      <<-25, 0, 900, -900, 5553742, -1, 360000>>,
      <<-25, 0, 900, 0, 5553742, 0, 360000>>,
      <<25, -1800, -25, -1800, 300202, 180000, 540000>>,
      <<25, -1800, -25, -900, 5410186, 92497, 452497>>,
      <<25, -1800, -25, 0, -1, 90000, 450000>>,
      <<25, -1800, 25, -1800, 0, 0, 360000>>,
      <<25, -1800, 25, -900, 5397096, 87502, 447502>>,
      <<25, -1800, 25, 0, 10507080, 0, 360000>>,
      <<25, -1800, 900, -1800, 5253540, 0, 360000>>,
      <<25, -1800, 900, -900, 5253540, 0, 360000>>,
      <<25, -1800, 900, 0, 5253540, 0, 360000>>,
      <<25, -900, -25, -1800, 5410186, -92498, 267502>>,
      <<25, -900, -25, -900, 300202, 180000, 540000>>,
      <<25, -900, -25, 0, 5410186, 92497, 452497>>,
      <<25, -900, 25, -1800, 5397096, -87503, 272497>>,
      <<25, -900, 25, -900, 0, 0, 360000>>,
      <<25, -900, 25, 0, 5397096, 87502, 447502>>,
      <<25, -900, 900, -1800, 5253540, -1, 360000>>,
      <<25, -900, 900, -900, 5253540, 0, 360000>>,
      <<25, -900, 900, 0, 5253540, 0, 360000>>,
      <<25, 0, -25, -1800, -1, -90000, 270000>>,
      <<25, 0, -25, -900, 5410186, -92498, 267502>>,
      <<25, 0, -25, 0, 300202, 180000, 540000>>,
      <<25, 0, 25, -1800, 10507080, -1, 359999>>,
      <<25, 0, 25, -900, 5397096, -87503, 272497>>,
      <<25, 0, 25, 0, 0, 0, 360000>>,
      <<25, 0, 900, -1800, 5253540, -1, 360000>>,
      <<25, 0, 900, -900, 5253540, -1, 360000>>,
      <<25, 0, 900, 0, 5253540, 0, 360000>>,
      <<900, -1800, -25, -1800, 5553742, 180000, 540000>>,
      <<900, -1800, -25, -900, 5553742, 90000, 450000>>,
      <<900, -1800, -25, 0, 5553742, 0, 360000>>,
      <<900, -1800, 25, -1800, 5253540, 180000, 540000>>,
      <<900, -1800, 25, -900, 5253540, 90000, 450000>>,
      <<900, -1800, 25, 0, 5253540, 0, 360000>>,
      <<900, -1800, 900, -1800, 0, 0, 360000>>,
      <<900, -1800, 900, -900, 0, 45000, 405000>>,
      <<900, -1800, 900, 0, 0, 0, 360000>>,
      <<900, -900, -25, -1800, 5553742, -90001, 270000>>,
      <<900, -900, -25, -900, 5553742, 180000, 540000>>,
      <<900, -900, -25, 0, 5553742, 90000, 450000>>,
      <<900, -900, 25, -1800, 5253540, -90001, 270000>>,
      <<900, -900, 25, -900, 5253540, 180000, 540000>>,
      <<900, -900, 25, 0, 5253540, 90000, 450000>>,
      <<900, -900, 900, -1800, 0, -45000, 315000>>,
      <<900, -900, 900, -900, 0, 0, 360000>>,
      <<900, -900, 900, 0, 0, 45000, 405000>>,
      <<900, 0, -25, -1800, 5553742, -1, 360000>>,
      <<900, 0, -25, -900, 5553742, -90001, 270000>>,
      <<900, 0, -25, 0, 5553742, 180000, 540000>>,
      <<900, 0, 25, -1800, 5253540, -1, 360000>>,
      <<900, 0, 25, -900, 5253540, -90001, 270000>>,
      <<900, 0, 25, 0, 5253540, 180000, 540000>>,
      <<900, 0, 900, -1800, 0, -1, 360000>>,
      <<900, 0, 900, -900, 0, -45000, 315000>>,
      <<900, 0, 900, 0, 0, 0, 360000>> }

NavRow(lat1, lon1, lat2, lon2) ==
    CHOOSE r \in NavTable :
        r[1] = lat1 /\ r[2] = lon1 /\ r[3] = lat2 /\ r[4] = lon2

haversine_nm(lat1, lon1, lat2, lon2) == NavRow(lat1, lon1, lat2, lon2)[5]

\* math.sqrt(1 - a) raises ValueError in haversine_nm
haversine_raises(lat1, lon1, lat2, lon2) ==
    NavRow(lat1, lon1, lat2, lon2)[5] = -1

\* brng + 360 only for a negative brng, and no "% 360"
bearing_deg_no_modulo(lat1, lon1, lat2, lon2) ==
    LET r == NavRow(lat1, lon1, lat2, lon2)
    IN IF r[6] < 0 THEN r[7] ELSE r[6]

\* return (brng + 360) % 360
bearing_deg(lat1, lon1, lat2, lon2) ==
    NavRow(lat1, lon1, lat2, lon2)[7] % 360000

\* round(): num / den to the nearest integer, ties to the even one
\* (num >= 0, den > 0)
RoundDiv(num, den) ==
    LET q == num \div den
        r == num % den
    IN IF 2 * r < den THEN q
       ELSE IF 2 * r > den THEN q + 1
       ELSE IF q % 2 = 0 THEN q ELSE q + 1

\* hours as an exact quotient
Hours(num, den) == [num |-> num, den |-> den]

\* total_minutes = int(round(hours * 60)); h, m = divmod(total_minutes, 60);
\* the string f"{h:02d}:{m:02d}" is the pair of its two numbers
hours_to_hhmm_truncating(hours) ==
    LET total_minutes == (hours.num * 60) \div hours.den
    IN [h |-> total_minutes \div 60, m |-> total_minutes % 60]

hours_to_hhmm(hours) ==
    LET total_minutes == RoundDiv(hours.num * 60, hours.den)
    IN [h |-> total_minutes \div 60, m |-> total_minutes % 60]

----------------------------------------------------------------------------
(* ned/services/route_calc_service.py (app.py holds the same function)      *)
(* speed_kn is in tenths of a knot; a distance of d thousandths of a NM    *)
(* at s tenths of a knot takes d / (100 * s) hours.                        *)

\* the two guards, in the order of the code
CheckPointsFirst(points, speed_kn) ==
    IF Len(points) < 2 THEN "points"
    ELSE IF speed_kn <= 0 THEN "speed"
    ELSE "none"

Check(points, speed_kn) ==
    IF speed_kn <= 0 THEN "speed"
    ELSE IF Len(points) < 2 THEN "points"
    ELSE "none"

\* seg_hours computed from the distance already rounded for display
SegHoursOfRounded(dist_nm, speed_kn) ==
    Hours(RoundDiv(dist_nm, 10) * 10, 100 * speed_kn)

\* seg_hours = dist_nm / speed_kn
SegHours(dist_nm, speed_kn) == Hours(dist_nm, 100 * speed_kn)

\* total_nm += round(dist_nm, 2)
AddRounded(total_nm, dist_nm) == total_nm + RoundDiv(dist_nm, 10) * 10

\* total_nm += dist_nm
AddNm(total_nm, dist_nm) == total_nm + dist_nm

\* the dict appended to segments_out for the leg from a to b
Segment(a, b, speed_kn) ==
    LET dist_nm == haversine_nm(a.lat, a.lon, b.lat, b.lon)
        brng == bearing_deg(a.lat, a.lon, b.lat, b.lon)
        seg_hours == SegHours(dist_nm, speed_kn)
    IN [from |-> [lat |-> a.lat, lon |-> a.lon],
        to |-> [lat |-> b.lat, lon |-> b.lon],
        distance_nm |-> RoundDiv(dist_nm, 10),
        bearing_deg |-> RoundDiv(brng, 100),
        eta_hours |-> RoundDiv(seg_hours.num * 100, seg_hours.den),
        eta_hhmm |-> hours_to_hhmm(seg_hours)]

\* "for i in range(len(points) - 1)": the locals after i iterations
CalcLoop(points, speed_kn) ==
    LET F[i \in 0..(Len(points) - 1)] ==
          IF i = 0
          THEN [segments_out |-> << >>, total_nm |-> 0,
                total_hours |-> Hours(0, 100 * speed_kn)]
          ELSE LET prev == F[i - 1]
                   a == points[i]
                   b == points[i + 1]
                   dist_nm == haversine_nm(a.lat, a.lon, b.lat, b.lon)
                   seg_hours == SegHours(dist_nm, speed_kn)
               IN [segments_out |-> Append(prev.segments_out, Segment(a, b, speed_kn)),
                   total_nm |-> AddNm(prev.total_nm, dist_nm),
                   total_hours |-> Hours(prev.total_hours.num + seg_hours.num,
                                         prev.total_hours.den)]
    IN F[Len(points) - 1]

CalcResult(speed_kn, loop) ==
    [speed_kn |-> speed_kn,
     total_nm |-> RoundDiv(loop.total_nm, 10),
     total_eta_hours |-> RoundDiv(loop.total_hours.num * 100, loop.total_hours.den),
     total_eta_hhmm |-> hours_to_hhmm(loop.total_hours),
     segments |-> loop.segments_out]

\* what the call raises ("none": it returns), and the CalcResult returned
compute_route_calculation(points, speed_kn) ==
    IF Check(points, speed_kn) # "none"
    THEN [raised |-> Check(points, speed_kn), result |-> None]
    ELSE [raised |-> "none",
          result |-> Some(CalcResult(speed_kn, CalcLoop(points, speed_kn)))]

----------------------------------------------------------------------------
(* ned/services/route_warnings_service.py *)

max_segment_nm == 50000

\* one warning per leg at most: "navigation jump" replaces "is very long"
LegWarningsOneOnly(i, dist_nm) ==
    IF dist_nm > max_segment_nm * 2
    THEN <<[segment |-> i, kind |-> "navigation jump", nm |-> 0]>>
    ELSE IF dist_nm > max_segment_nm
    THEN <<[segment |-> i, kind |-> "very long", nm |-> RoundDiv(dist_nm, 100)]>>
    ELSE << >>

\* the warnings of one leg: "is very long", then "navigation jump"
LegWarnings(i, dist_nm) ==
    (IF dist_nm > max_segment_nm
        THEN <<[segment |-> i, kind |-> "very long", nm |-> RoundDiv(dist_nm, 100)]>>
        ELSE << >>)
    \o
    (IF dist_nm > max_segment_nm * 2
        THEN <<[segment |-> i, kind |-> "navigation jump", nm |-> 0]>>
        ELSE << >>)

compute_route_warnings(points) ==
    IF Len(points) < 2 THEN << >>
    ELSE LET F[i \in 0..(Len(points) - 1)] ==
               IF i = 0 THEN << >>
               ELSE F[i - 1] \o
                    LegWarnings(i, haversine_nm(points[i].lat, points[i].lon,
                                                points[i + 1].lat, points[i + 1].lon))
         IN F[Len(points) - 1]

----------------------------------------------------------------------------
(* Initial values shared by the specifications *)

NoSpeed == [kind |-> "empty", v |-> 0]

IdleForm == [user_id |-> 0, speed_kn |-> NoSpeed, waypoints |-> << >>]

IdleBuild == NewBuild(<< >>)

NoData == [routes |-> << >>, voyages |-> << >>]

NoOutcome ==
    [status |-> "none", calc_result |-> None, calc_error |-> None,
     calc_called |-> FALSE]

NoCalcArgs == [points |-> << >>, speed_kn |-> 0]

NoCalcRet == [raised |-> "not called", result |-> None]

NoTrace == [p \in Procs |-> << >>]

NoWarnRet == [called |-> FALSE, warnings |-> << >>]

NoCoordCall == [token |-> << >>, coord_type |-> "lat", ret |-> None]

NoCall == [fn |-> "none", args |-> << >>, ret |-> << >>]

NoChat == << >>

NoPairCall ==
    [text |-> << >>, raw_lines |-> << >>, i |-> 0, points |-> << >>,
     status |-> "idle", line |-> 0, err |-> ""]

UserIds == {0, 1, 2}

SpeedInputs ==
    {NoSpeed, [kind |-> "text", v |-> 0], [kind |-> "num", v |-> 0],
     [kind |-> "num", v |-> 100]}

PlannerTexts ==
    { << >>,
      <<LineDec2>>,
      <<LineDec1, LineDec2>>,
      <<LineDec1, LineNameUpper, LineDec3>>,
      <<LineDec1, LineUnknown, LineDec2>>,
      <<LineNameUpper, LineDec1, LineNameUpper>> }

Directories == {<< >>, <<LocConstanta>>, <<LocFarpoint, LocConstanta>>}

----------------------------------------------------------------------------
(* SpecBuild: one direct call build_route_from_text(text, resolver) with a  *)
(* fresh LocalLocationsResolver over an arbitrary locations file           *)

InitBuild ==
    /\ routes = << >>
    /\ voyages = << >>
    /\ locations \in Directories
    /\ pc = [p \in Procs |-> IF p = 1 THEN "build_call" ELSE "idle"]
    /\ \E text \in SeqsUpTo(Lines, MaxLines) :
          form = [p \in Procs |->
                    IF p = 1 THEN [IdleForm EXCEPT !.waypoints = text]
                    ELSE IdleForm]
    /\ data = [p \in Procs |-> NoData]
    /\ \E r \in {NewResolver, FlakyResolver} :
          resolver = [p \in Procs |-> IF p = 1 THEN r ELSE NewResolver]
    /\ build = [p \in Procs |-> IdleBuild]
    /\ outcome = [p \in Procs |-> NoOutcome]
    /\ calcArgs = NoCalcArgs
    /\ calcRet = NoCalcRet
    /\ readable \in BOOLEAN
    /\ ~readable => locations = << >>
    /\ trace = NoTrace
    /\ warnRet = NoWarnRet
    /\ call = NoCall
    /\ chat = NoChat
    /\ coordCall = NoCoordCall
    /\ pairCall = NoPairCall

NextBuild ==
    \/ BuildCall(1)
    \/ BuildLine(1)
    \/ BuildReturn(1)

SpecBuild == InitBuild /\ [][NextBuild]_vars

----------------------------------------------------------------------------
(* Properties of build_route_from_text, stated on the text that was passed  *)
(* in and the locations file, for a call that has returned                 *)

Returned(p) == pc[p] = "build_ret"

\* the non-blank lines of the text of request p, in input order
NonBlank(p) ==
    LET text == form[p].waypoints
        F[k \in 0..Len(text)] ==
            IF k = 0 THEN << >>
            ELSE IF text[k] = << >> THEN F[k - 1] ELSE Append(F[k - 1], text[k])
    IN F[Len(text)]

\* the entry of the locations file whose key is the line in lower case
EntryOf(raw) ==
    LET hits == {i \in DOMAIN locations : locations[i].key = Lower(raw)}
    IN IF hits = {} THEN None ELSE Some(locations[CHOOSE i \in hits : TRUE])

\* a line written as two plain decimals, separated by "," or ";" or a space
IsTyped(raw) ==
    /\ Len(raw) \in {2, 3}
    /\ raw[1].t = "num" /\ raw[1].s # "+"
    /\ raw[Len(raw)].t = "num" /\ raw[Len(raw)].s # "+"
    /\ Len(raw) = 3 => raw[2] \in {Punct(","), Punct(";")}

\* the coordinates a line stands for: typed on it, or those of its location
LineCoords(raw) ==
    IF IsTyped(raw)
    THEN Some([lat |-> NumVal(raw[1]), lon |-> NumVal(raw[Len(raw)])])
    ELSE IF EntryOf(raw) # None
    THEN Some([lat |-> EntryOf(raw)[1].lat, lon |-> EntryOf(raw)[1].lon])
    ELSE None

LatOk(c) == c.lat >= -900 /\ c.lat <= 900
LonOk(c) == c.lon >= -1800 /\ c.lon <= 1800

LineFails(raw) ==
    \/ LineCoords(raw) = None
    \/ ~LatOk(LineCoords(raw)[1])
    \/ ~LonOk(LineCoords(raw)[1])

\* the numbers of the lines that do not fail, ascending
ValidIdx(p) ==
    LET nb == NonBlank(p)
        F[k \in 0..Len(nb)] ==
            IF k = 0 THEN << >>
            ELSE IF LineFails(nb[k]) THEN F[k - 1] ELSE Append(F[k - 1], k)
    IN F[Len(nb)]

ErrorsOfLine(p, k) ==
    Cardinality({j \in DOMAIN build[p].errors : build[p].errors[j].line = k})

\* the valid lines and the waypoints correspond one to one, in order
WaypointsMatchValidLines(p) ==
    LET nb == NonBlank(p)
        valid == ValidIdx(p)
        wps == build[p].waypoints
    IN /\ Len(wps) = Len(valid)
       /\ \A j \in DOMAIN wps :
            /\ wps[j].lat = LineCoords(nb[valid[j]])[1].lat
            /\ wps[j].lon = LineCoords(nb[valid[j]])[1].lon

\* C2: build_route_from_text never stops early: a call that has returned has
\* gone through every non-blank line, every failing line has at least one
\* entry in errors, and every valid line (also one after a failing line)
\* has its waypoint, in line order.
C2_NeverStopsEarly ==
    \A p \in Procs : Returned(p) =>
        LET nb == NonBlank(p)
        IN /\ build[p].i = Len(nb)
           /\ \A k \in DOMAIN nb : LineFails(nb[k]) => ErrorsOfLine(p, k) >= 1
           /\ WaypointsMatchValidLines(p)

\* a returned call in which a valid line follows a failing line
C2_Witness ==
    \E p \in Procs :
        /\ Returned(p)
        /\ \E j, k \in DOMAIN NonBlank(p) :
              /\ j < k
              /\ LineFails(NonBlank(p)[j])
              /\ ~LineFails(NonBlank(p)[k])
        /\ build[p].waypoints # << >>

\* the numbers of the lines that are not two plain decimals, ascending
NotTypedIdx(p) ==
    LET nb == NonBlank(p)
        F[k \in 0..Len(nb)] ==
            IF k = 0 THEN << >>
            ELSE IF IsTyped(nb[k]) THEN F[k - 1] ELSE Append(F[k - 1], k)
    IN F[Len(nb)]

HasCoordWaypoint(p, k) ==
    \E j \in DOMAIN build[p].waypoints : build[p].waypoints[j].label = WPLabel(k)

\* a pair the coordinate parser accepts that carries hemisphere letters
IsDmsPair(raw) ==
    /\ parse_pair_line(raw).ok
    /\ \E i \in DOMAIN raw : raw[i].t = "word"

\* C3 as stated: three strategies, so a line that is not two plain decimals
\* but parses as a strict pair of the coordinate parser (DM/DMS with
\* hemisphere letters) becomes a coordinate waypoint and resolver.resolve is
\* not called for it.
C3_Original ==
    \A p \in Procs : Returned(p) =>
        \A k \in DOMAIN NonBlank(p) :
            (~IsTyped(NonBlank(p)[k]) /\ IsDmsPair(NonBlank(p)[k]))
            => /\ HasCoordWaypoint(p, k)
               /\ ~InSeq(k, resolver[p].resolve_calls)

\* C3 (amended): two strategies in this order: the plain decimal pair, then
\* the location lookup.  resolver.resolve is called for exactly the lines
\* that are not a plain decimal pair, in line order, and such a line never
\* becomes a coordinate waypoint, a valid DM/DMS pair included.
C3_TwoStrategies ==
    \A p \in Procs : Returned(p) =>
        /\ resolver[p].resolve_calls = NotTypedIdx(p)
        /\ \A k \in DOMAIN NonBlank(p) :
              /\ ~IsTyped(NonBlank(p)[k]) => ~HasCoordWaypoint(p, k)
              /\ (IsTyped(NonBlank(p)[k]) /\ ~LineFails(NonBlank(p)[k]))
                    => HasCoordWaypoint(p, k)

\* a returned call whose text holds a valid DM pair that went to the
\* resolver, next to a plain decimal line that became a waypoint
C3_Witness ==
    \E p \in Procs :
        /\ Returned(p)
        /\ \E k \in DOMAIN NonBlank(p) :
              /\ NonBlank(p)[k] = LineDM
              /\ IsDmsPair(LineDM)
              /\ InSeq(k, resolver[p].resolve_calls)
        /\ \E k \in DOMAIN NonBlank(p) : HasCoordWaypoint(p, k)

\* C4: every waypoint of build_route_from_text has -90 <= lat <= 90 and
\* -180 <= lon <= 180, typed or resolved, at every point of the call; a line
\* whose coordinates fall outside has error entries and no waypoint.
C4_WaypointsInRange ==
    \A p \in Procs :
        /\ \A j \in DOMAIN build[p].waypoints :
              /\ build[p].waypoints[j].lat >= -900
              /\ build[p].waypoints[j].lat <= 900
              /\ build[p].waypoints[j].lon >= -1800
              /\ build[p].waypoints[j].lon <= 1800
        /\ Returned(p) =>
              /\ \A k \in DOMAIN NonBlank(p) :
                    (/\ LineCoords(NonBlank(p)[k]) # None
                     /\ LineFails(NonBlank(p)[k]))
                    => ErrorsOfLine(p, k) >= 1
              /\ Len(build[p].waypoints) = Len(ValidIdx(p))

\* a returned call with a typed line out of range, a resolved location out
\* of range, and a waypoint
C4_Witness ==
    \E p \in Procs :
        /\ Returned(p)
        /\ \E j, k \in DOMAIN NonBlank(p) :
              /\ IsTyped(NonBlank(p)[j]) /\ LineFails(NonBlank(p)[j])
              /\ EntryOf(NonBlank(p)[k]) # None /\ LineFails(NonBlank(p)[k])
        /\ build[p].waypoints # << >>

\* C5: the structural warning is given exactly when errors is empty and
\* fewer than 2 waypoints were resolved; otherwise warnings is empty.
C5_StructuralWarning ==
    \A p \in Procs : Returned(p) =>
        build[p].warnings =
            IF build[p].errors = << >> /\ Len(build[p].waypoints) < 2
            THEN <<"Add at least 2 waypoints to build a route.">>
            ELSE << >>

\* a returned call with one waypoint, no error, and the warning
C5_Witness ==
    \E p \in Procs :
        /\ Returned(p)
        /\ Len(build[p].waypoints) = 1
        /\ build[p].errors = << >>
        /\ build[p].warnings # << >>

FailedLines(p) == {k \in DOMAIN NonBlank(p) : LineFails(NonBlank(p)[k])}

\* C6 as stated: one error entry per offending line.
C6_Original ==
    \A p \in Procs : Returned(p) =>
        Len(build[p].errors) = Cardinality(FailedLines(p))

\* the entries a line gives: one for an unknown location, one per axis out
\* of range otherwise
EntriesOf(raw) ==
    IF LineCoords(raw) = None THEN 1
    ELSE (IF LatOk(LineCoords(raw)[1]) THEN 0 ELSE 1)
         + (IF LonOk(LineCoords(raw)[1]) THEN 0 ELSE 1)

\* C6 (amended): a line gives one entry per failed check: exactly one for an
\* unknown location, one per out-of-range axis for coordinates (two when
\* latitude and longitude are both out of range); every entry names a line.
C6_EntriesPerLine ==
    \A p \in Procs : Returned(p) =>
        /\ \A k \in DOMAIN NonBlank(p) :
              ErrorsOfLine(p, k) = EntriesOf(NonBlank(p)[k])
        /\ \A j \in DOMAIN build[p].errors :
              build[p].errors[j].line \in DOMAIN NonBlank(p)
        /\ Len(build[p].errors) >= Cardinality(FailedLines(p))
        /\ Len(build[p].errors) <= 2 * Cardinality(FailedLines(p))

\* a returned call where one line gave two entries and another gave one
C6_Witness ==
    \E p \in Procs :
        /\ Returned(p)
        /\ \E j, k \in DOMAIN NonBlank(p) :
              ErrorsOfLine(p, j) = 2 /\ ErrorsOfLine(p, k) = 1

\* C7 as stated: WP{n} for a coordinate line, n its place among the
\* non-blank lines, and the matched location's name (its key or its
\* display name in the locations file) for a location line.
C7_Original ==
    \A p \in Procs : Returned(p) =>
        /\ Len(build[p].waypoints) = Len(ValidIdx(p))
        /\ \A j \in DOMAIN build[p].waypoints :
              LET k == ValidIdx(p)[j]
                  raw == NonBlank(p)[k]
                  label == build[p].waypoints[j].label
              IN IF IsTyped(raw) THEN label = [kind |-> "WP", n |-> k, text |-> << >>]
                 ELSE /\ label.kind = "text"
                      /\ label.text \in {EntryOf(raw)[1].key, EntryOf(raw)[1].display}

\* C7 (amended): WP{n} for a coordinate line, n its place among the
\* non-blank lines (failed lines keep their number); for a location line
\* the label is the text of the line as typed, which is the matched
\* location's name up to letter case.
C7_Labels ==
    \A p \in Procs : Returned(p) =>
        /\ Len(build[p].waypoints) = Len(ValidIdx(p))
        /\ \A j \in DOMAIN build[p].waypoints :
              LET k == ValidIdx(p)[j]
                  raw == NonBlank(p)[k]
                  label == build[p].waypoints[j].label
              IN IF IsTyped(raw) THEN label = [kind |-> "WP", n |-> k, text |-> << >>]
                 ELSE /\ label = [kind |-> "text", n |-> 0, text |-> raw]
                      /\ Lower(label.text) = EntryOf(raw)[1].key

\* a returned call with a coordinate waypoint whose number is not its place
\* among the waypoints (a failed line precedes it), and a location waypoint
\* typed in another letter case than the location's name
C7_Witness ==
    \E p \in Procs :
        /\ Returned(p)
        /\ \E j \in DOMAIN build[p].waypoints :
              /\ build[p].waypoints[j].label.kind = "WP"
              /\ build[p].waypoints[j].label.n # j
        /\ \E j \in DOMAIN build[p].waypoints :
              /\ build[p].waypoints[j].label.kind = "text"
              /\ build[p].waypoints[j].label.text = LineNameUpper

----------------------------------------------------------------------------
(* SpecCalc: one direct call compute_route_calculation(points, speed_kn,    *)
(* haversine_nm, bearing_deg, hours_to_hhmm) with the functions of app.py  *)

CalcSpeeds == {-50, 0, 75, 100}

InitCalc ==
    /\ routes = << >>
    /\ voyages = << >>
    /\ locations = << >>
    /\ pc = [p \in Procs |-> "idle"]
    /\ form = [p \in Procs |-> IdleForm]
    /\ data = [p \in Procs |-> NoData]
    /\ resolver = [p \in Procs |-> NewResolver]
    /\ build = [p \in Procs |-> IdleBuild]
    /\ outcome = [p \in Procs |-> NoOutcome]
    /\ \E points \in SeqsUpTo(GridPoints, MaxPoints), speed_kn \in CalcSpeeds :
          calcArgs = [points |-> points, speed_kn |-> speed_kn]
    /\ calcRet = NoCalcRet
    /\ readable = TRUE
    /\ trace = NoTrace
    /\ warnRet = NoWarnRet
    /\ call = NoCall
    /\ chat = NoChat
    /\ coordCall = NoCoordCall
    /\ pairCall = NoPairCall

CallCompute ==
    /\ calcRet = NoCalcRet
    /\ calcRet' = compute_route_calculation(calcArgs.points, calcArgs.speed_kn)
    /\ UNCHANGED <<routes, voyages, locations, pc, form, data, resolver, build,
                   outcome, calcArgs, readable, trace, warnRet, coordCall,
                   pairCall, call, chat>>

\* compute_route_warnings(points, haversine_nm) on the same points, with the
\* default max_segment_nm
CallWarnings ==
    /\ ~warnRet.called
    /\ warnRet' = [called |-> TRUE,
                   warnings |-> compute_route_warnings(calcArgs.points)]
    /\ UNCHANGED <<routes, voyages, locations, pc, form, data, resolver, build,
                   outcome, calcArgs, calcRet, readable, trace, coordCall,
                   pairCall, call, chat>>

NextCalc == CallCompute \/ CallWarnings

SpecCalc == InitCalc /\ [][NextCalc]_vars

Called == calcRet.raised # "not called"

HasResult == calcRet.result # None

\* C8: compute_route_calculation returns a result only when speed_kn > 0 and
\* there are at least 2 points; speed_kn <= 0 raises the speed error, fewer
\* than 2 points the waypoints error, in both cases without a result or a
\* segment; when both fail the speed error is raised.
C8_Preconditions ==
    Called =>
        /\ HasResult <=> (calcArgs.speed_kn > 0 /\ Len(calcArgs.points) >= 2)
        /\ HasResult <=> calcRet.raised = "none"
        /\ calcArgs.speed_kn <= 0 => calcRet.raised = "speed"
        /\ (calcArgs.speed_kn > 0 /\ Len(calcArgs.points) < 2)
              => calcRet.raised = "points"

\* a call with a speed that is not positive and fewer than 2 points
C8_Witness ==
    /\ Called
    /\ calcArgs.speed_kn <= 0
    /\ Len(calcArgs.points) < 2
    /\ calcRet.raised = "speed"

AbsDiff(a, b) == IF a < b THEN b - a ELSE a - b

\* the result has n-1 segments, segment i from points[i] to points[i+1]
SegmentsChain ==
    LET pts == calcArgs.points
        segs == calcRet.result[1].segments
    IN /\ Len(segs) = Len(pts) - 1
       /\ \A i \in DOMAIN segs :
             /\ segs[i].from = pts[i]
             /\ segs[i].to = pts[i + 1]
       /\ \A i \in 1..(Len(segs) - 1) : segs[i].to = segs[i + 1].from
       /\ segs[1].from = pts[1]
       /\ segs[Len(segs)].to = pts[Len(pts)]

LegNm(i) ==
    haversine_nm(calcArgs.points[i].lat, calcArgs.points[i].lon,
                 calcArgs.points[i + 1].lat, calcArgs.points[i + 1].lon)

\* C9 as stated: n-1 chained segments, and eta_hours of a segment is its
\* distance divided by the speed (its haversine distance, or the distance_nm
\* the segment shows).  eta_hours is in hundredths of an hour, the speed in
\* tenths of a knot, the distance in thousandths of a NM.
C9_Original ==
    HasResult =>
        /\ SegmentsChain
        /\ \A i \in DOMAIN calcRet.result[1].segments :
              LET seg == calcRet.result[1].segments[i]
              IN \/ seg.eta_hours * calcArgs.speed_kn = LegNm(i)
                 \/ seg.eta_hours * calcArgs.speed_kn = seg.distance_nm * 10

\* C9 (amended): n-1 chained segments in input order, and eta_hours of a
\* segment is its unrounded haversine distance divided by the speed, rounded
\* to 2 decimals (within half a hundredth of the quotient).
C9_Segments ==
    HasResult =>
        /\ SegmentsChain
        /\ \A i \in DOMAIN calcRet.result[1].segments :
              2 * AbsDiff(calcRet.result[1].segments[i].eta_hours * calcArgs.speed_kn,
                          LegNm(i))
                 <= calcArgs.speed_kn

\* a result with two segments, one whose eta_hours is not the exact quotient
C9_Witness ==
    /\ HasResult
    /\ Len(calcRet.result[1].segments) = 2
    /\ \E i \in DOMAIN calcRet.result[1].segments :
          calcRet.result[1].segments[i].eta_hours * calcArgs.speed_kn # LegNm(i)

SumLegs ==
    LET F[i \in 0..(Len(calcArgs.points) - 1)] ==
          IF i = 0 THEN 0 ELSE F[i - 1] + LegNm(i)
    IN F[Len(calcArgs.points) - 1]

SumShown ==
    LET segs == calcRet.result[1].segments
        F[i \in 0..Len(segs)] ==
          IF i = 0 THEN 0 ELSE F[i - 1] + segs[i].distance_nm
    IN F[Len(segs)]

\* C10: the totals are rounded once, from the unrounded sums: total_nm is
\* the sum of the unrounded leg distances to the nearest hundredth,
\* total_eta_hours the unrounded total hours to the nearest hundredth,
\* total_eta_hhmm the unrounded total hours to the nearest minute with
\* 0 <= minutes <= 59; with two waypoints total_nm is the rounded distance
\* of the leg and total_eta_hhmm is the leg's eta_hhmm.
C10_Totals ==
    HasResult =>
        LET res == calcRet.result[1]
            minutes == res.total_eta_hhmm.h * 60 + res.total_eta_hhmm.m
        IN /\ AbsDiff(res.total_nm * 10, SumLegs) <= 5
           /\ 2 * AbsDiff(res.total_eta_hours * calcArgs.speed_kn, SumLegs)
                 <= calcArgs.speed_kn
           /\ res.total_eta_hhmm.m \in 0..59
           /\ 2 * AbsDiff(minutes * 100 * calcArgs.speed_kn, 60 * SumLegs)
                 <= 100 * calcArgs.speed_kn
           /\ Len(calcArgs.points) = 2 =>
                 /\ res.total_nm = res.segments[1].distance_nm
                 /\ 2 * AbsDiff(res.total_nm * 10, LegNm(1)) <= 10
                 /\ res.total_eta_hhmm = res.segments[1].eta_hhmm

\* a result whose total_nm is not the sum of the distances its segments show
C10_Witness ==
    /\ HasResult
    /\ Len(calcRet.result[1].segments) >= 2
    /\ calcRet.result[1].total_nm # SumShown

\* the kinds of the warnings about leg i, in the order they were emitted
KindsOfLeg(ws, i) ==
    LET sel == SelectSeq(ws, LAMBDA w : w.segment = i)
    IN [k \in DOMAIN sel |-> sel[k].kind]

\* distance of leg i of the points passed to the direct calls
ArgLegNm(i) ==
    haversine_nm(calcArgs.points[i].lat, calcArgs.points[i].lon,
                 calcArgs.points[i + 1].lat, calcArgs.points[i + 1].lon)

\* C11: compute_route_warnings gives, leg by leg in leg order, nothing for a
\* leg of at most 50 NM, one "very long" warning for a leg of more than 50
\* and at most 100 NM, and "very long" followed by "navigation jump" for a
\* leg of more than 100 NM; fewer than 2 points give the empty list.
C11_LegWarnings ==
    warnRet.called =>
        LET ws == warnRet.warnings
            n == Len(calcArgs.points)
        IN /\ n < 2 => ws = << >>
           /\ \A j \in DOMAIN ws : ws[j].segment \in 1..(n - 1)
           /\ \A j, k \in DOMAIN ws : j < k => ws[j].segment <= ws[k].segment
           /\ \A i \in 1..(n - 1) :
                 KindsOfLeg(ws, i) =
                    IF ArgLegNm(i) <= 50000 THEN << >>
                    ELSE IF ArgLegNm(i) <= 100000 THEN <<"very long">>
                    ELSE <<"very long", "navigation jump">>

\* a call on three points whose first leg is between 50 and 100 NM and
\* whose second leg is longer than 100 NM: three warnings
C11_Witness ==
    /\ warnRet.called
    /\ Len(calcArgs.points) = 3
    /\ ArgLegNm(1) > 50000 /\ ArgLegNm(1) <= 100000
    /\ ArgLegNm(2) > 100000
    /\ Len(warnRet.warnings) = 3

----------------------------------------------------------------------------
(* SpecCoord: one direct call parse_single_coord(token, coord_type)         *)

MaxParts == 5      \* parts of a coordinate token

\* "-44.0", "10.2", "181.0", "N", "w", "X" and the comma
CoordAlphabet ==
    {Num("-", 440), Num("", 102), Num("", 1810),
     Word("N"), Word("w"), Word("X"), Punct(",")}

\* "44 10.2 N", "28 39.0 E", "44 10.2 S", "90.0", "91.0", "180.0", "-180.0",
\* "+45.0"
CoordExamples ==
    { <<Num("", 440), Num("", 102), Word("N")>>,
      <<Num("", 280), Num("", 390), Word("E")>>,
      <<Num("", 440), Num("", 102), Word("S")>>,
      <<Num("", 900)>>, <<Num("", 910)>>, <<Num("", 1800)>>,
      <<Num("-", 1800)>>, <<Num("+", 450)>> }

CoordTokens == SeqsUpTo(CoordAlphabet, MaxParts) \cup CoordExamples

InitCoord ==
    /\ routes = << >>
    /\ voyages = << >>
    /\ locations = << >>
    /\ pc = [p \in Procs |-> "idle"]
    /\ form = [p \in Procs |-> IdleForm]
    /\ data = [p \in Procs |-> NoData]
    /\ resolver = [p \in Procs |-> NewResolver]
    /\ build = [p \in Procs |-> IdleBuild]
    /\ outcome = [p \in Procs |-> NoOutcome]
    /\ calcArgs = NoCalcArgs
    /\ calcRet = NoCalcRet
    /\ readable = TRUE
    /\ trace = NoTrace
    /\ warnRet = NoWarnRet
    /\ call = NoCall
    /\ chat = NoChat
    /\ \E token \in CoordTokens, coord_type \in {"lat", "lon"} :
          coordCall = [token |-> token, coord_type |-> coord_type, ret |-> None]
    /\ pairCall = NoPairCall

CallParseSingleCoord ==
    /\ coordCall.ret = None
    /\ coordCall' = [coordCall EXCEPT !.ret =
                        Some(parse_single_coord(coordCall.token, coordCall.coord_type))]
    /\ UNCHANGED <<routes, voyages, locations, pc, form, data, resolver, build,
                   outcome, calcArgs, calcRet, readable, trace, warnRet,
                   pairCall, call, chat>>

NextCoord == CallParseSingleCoord

SpecCoord == InitCoord /\ [][NextCoord]_vars

\* the parts of a token: its text split at white space and commas
PartsOf(token) == SelectSeq(token, LAMBDA x : x # Punct(","))

\* the token is a plain signed decimal
IsPlainDecimal(token) == Len(token) = 1 /\ token[1].t = "num"

\* the token is 2 or 3 parts followed by a hemisphere letter
HasDmsShape(token) ==
    LET ps == PartsOf(token)
    IN /\ Len(ps) \in {3, 4}
       /\ ps[Len(ps)].t = "word"
       /\ ps[Len(ps)].s \in {"N", "S", "E", "W", "n", "s", "e", "w"}

\* |deg| + minutes/60 + seconds/3600 of a token of that shape whose leading
\* parts are numbers, negated for S and W, in 1/36000 degree
DmsValue(token) ==
    LET ps == PartsOf(token)
        magnitude == Abs(NumVal(ps[1])) * 3600 + NumVal(ps[2]) * 60
                     + (IF Len(ps) = 4 THEN NumVal(ps[3]) ELSE 0)
    IN IF ps[Len(ps)].s \in {"S", "s", "W", "w"} THEN 0 - magnitude
       ELSE magnitude

\* the leading parts of a token of that shape are all numbers
DmsNumeric(token) ==
    LET ps == PartsOf(token)
    IN \A i \in 1..(Len(ps) - 1) : ps[i].t = "num"

\* the value lies in the range of the axis, bounds included
AxisRange(val, coord_type) ==
    IF coord_type = "lat" THEN val >= -3240000 /\ val <= 3240000
    ELSE val >= -6480000 /\ val <= 6480000

CoordReturned == coordCall.ret # None

\* C16: for a DM or DMS token with a hemisphere letter parse_single_coord
\* returns |deg| + minutes/60 + seconds/3600 (seconds 0 for DM), negated
\* exactly for S and W, whenever that value is in the range of the axis;
\* "44 10.2 N" as lat is 44.17 and "28 39.0 E" as lon is 28.65 to 0.001.
C16_DmsValue ==
    CoordReturned =>
        LET token == coordCall.token
            ret == coordCall.ret[1]
        IN /\ (~IsPlainDecimal(token) /\ ret.ok) => ret.val = DmsValue(token)
           /\ (/\ HasDmsShape(token) /\ DmsNumeric(token)
               /\ AxisRange(DmsValue(token), coordCall.coord_type))
              => ret.ok /\ ret.val = DmsValue(token)
           /\ (token = <<Num("", 440), Num("", 102), Word("N")>>
                /\ coordCall.coord_type = "lat")
              => ret.ok /\ AbsDiff(ret.val, 1590120) <= 36
           /\ (token = <<Num("", 280), Num("", 390), Word("E")>>
                /\ coordCall.coord_type = "lon")
              => ret.ok /\ AbsDiff(ret.val, 1031400) <= 36

\* a DMS token in the western hemisphere, with negative degrees in the
\* text, returned as a negative longitude
C16_Witness ==
    /\ CoordReturned
    /\ coordCall.token = <<Num("-", 440), Num("", 102), Num("", 102), Word("w")>>
    /\ coordCall.coord_type = "lon"
    /\ coordCall.ret[1].ok
    /\ coordCall.ret[1].val = 0 - (440 * 3600 + 102 * 60 + 102)

\* C17: a value returned by parse_single_coord lies in the range of the
\* requested axis, bounds included; a value out of range is not returned
\* but raised as a range error that carries it, on the decimal path and on
\* the DM/DMS path ("91" as lat and "181" as lon are rejected).
C17_RangeChecked ==
    CoordReturned =>
        LET token == coordCall.token
            axis == coordCall.coord_type
            ret == coordCall.ret[1]
            wellFormed == IsPlainDecimal(token)
                          \/ (HasDmsShape(token) /\ DmsNumeric(token))
            value == IF IsPlainDecimal(token) THEN NumVal(token[1]) * 3600
                     ELSE DmsValue(token)
        IN /\ ret.ok => AxisRange(ret.val, axis)
           /\ wellFormed =>
                 IF AxisRange(value, axis)
                 THEN ret.ok /\ ret.val = value
                 ELSE ~ret.ok /\ ret.err = "range" /\ ret.val = value
           /\ ret.err = "range" => wellFormed /\ ~AxisRange(value, axis)

\* a DM token of 181 degrees 10.2 minutes rejected as a latitude with the
\* value in the error
C17_Witness ==
    /\ CoordReturned
    /\ coordCall.token = <<Num("", 1810), Num("", 102), Word("N")>>
    /\ coordCall.coord_type = "lat"
    /\ ~coordCall.ret[1].ok
    /\ coordCall.ret[1].err = "range"
    /\ coordCall.ret[1].val = 1810 * 3600 + 102 * 60

\* C18: a token that is not a plain signed decimal is accepted only if its
\* last part is a hemisphere letter (the text is upper-cased first) and
\* exactly 2 or 3 parts precede it; otherwise a format error is raised and
\* no value is returned.
C18_DmsShape ==
    (CoordReturned /\ ~IsPlainDecimal(coordCall.token)) =>
        LET ret == coordCall.ret[1]
        IN /\ ret.ok => HasDmsShape(coordCall.token)
           /\ ~HasDmsShape(coordCall.token)
              => /\ ~ret.ok
                 /\ ret.err \in {"format", "hemisphere"}
                 /\ ret.val = 0

\* four numbers before the hemisphere letter: a format error
C18_Witness ==
    /\ CoordReturned
    /\ Len(PartsOf(coordCall.token)) = 5
    /\ \A i \in 1..4 : PartsOf(coordCall.token)[i].t = "num"
    /\ PartsOf(coordCall.token)[5] = Word("N")
    /\ ~coordCall.ret[1].ok
    /\ coordCall.ret[1].err = "format"

----------------------------------------------------------------------------
(* SpecPairs: one direct call parse_waypoints(text)                         *)

MaxPairLines == 3  \* lines of text in a direct parse_waypoints call

PairLines ==
    {Blank, LineDec1, LineDec2, LineDec3, LineDM, LineOutBoth, LineTwoCommas}

InitPairs ==
    /\ routes = << >>
    /\ voyages = << >>
    /\ locations = << >>
    /\ pc = [p \in Procs |-> "idle"]
    /\ form = [p \in Procs |-> IdleForm]
    /\ data = [p \in Procs |-> NoData]
    /\ resolver = [p \in Procs |-> NewResolver]
    /\ build = [p \in Procs |-> IdleBuild]
    /\ outcome = [p \in Procs |-> NoOutcome]
    /\ calcArgs = NoCalcArgs
    /\ calcRet = NoCalcRet
    /\ readable = TRUE
    /\ trace = NoTrace
    /\ warnRet = NoWarnRet
    /\ call = NoCall
    /\ chat = NoChat
    /\ coordCall = NoCoordCall
    /\ \E text \in SeqsUpTo(PairLines, MaxPairLines) :
          pairCall = [NoPairCall EXCEPT !.text = text]

PairCallEnter ==
    /\ pairCall.status = "idle"
    /\ pairCall' = PairEnter(pairCall.text)
    /\ UNCHANGED <<routes, voyages, locations, pc, form, data, resolver, build,
                   outcome, calcArgs, calcRet, readable, trace, warnRet,
                   coordCall, call, chat>>

PairCallLine ==
    /\ pairCall.status = "loop"
    /\ pairCall.i < Len(pairCall.raw_lines)
    /\ pairCall' = PairLoopBody(pairCall)
    /\ UNCHANGED <<routes, voyages, locations, pc, form, data, resolver, build,
                   outcome, calcArgs, calcRet, readable, trace, warnRet,
                   coordCall, call, chat>>

PairCallLeave ==
    /\ pairCall.status = "loop"
    /\ pairCall.i = Len(pairCall.raw_lines)
    /\ pairCall' = PairLeave(pairCall)
    /\ UNCHANGED <<routes, voyages, locations, pc, form, data, resolver, build,
                   outcome, calcArgs, calcRet, readable, trace, warnRet,
                   coordCall, call, chat>>

NextPairs == PairCallEnter \/ PairCallLine \/ PairCallLeave

SpecPairs == InitPairs /\ [][NextPairs]_vars

HasComma(line) == \E i \in DOMAIN line : line[i] = Punct(",")

\* the tokens before and after the first comma of a line that has one
LatToken(line) ==
    LET c == CHOOSE i \in DOMAIN line :
                line[i] = Punct(",") /\ \A j \in 1..(i - 1) : line[j] # Punct(",")
    IN SubSeq(line, 1, c - 1)

LonToken(line) ==
    LET c == CHOOSE i \in DOMAIN line :
                line[i] = Punct(",") /\ \A j \in 1..(i - 1) : line[j] # Punct(",")
    IN SubSeq(line, c + 1, Len(line))

\* the line has a comma and both of its tokens parse on their own axis
PairLineOk(line) ==
    /\ HasComma(line)
    /\ parse_single_coord(LatToken(line), "lat").ok
    /\ parse_single_coord(LonToken(line), "lon").ok

PairEnded == pairCall.status \in {"returned", "raised"}

\* C19: parse_waypoints splits every line at its first comma into a lat
\* token and a lon token, each parsed by parse_single_coord on its own
\* axis; a line without a comma or with a token that fails raises an error
\* naming the 1-based number of that line; points are returned only when
\* every line parsed and there are at least 2 of them.
C19_StrictPairs ==
    PairEnded =>
        LET rl == pairCall.raw_lines
            pts == pairCall.points
        IN /\ pairCall.status = "returned" =>
                 /\ Len(pts) = Len(rl) /\ Len(pts) >= 2
                 /\ \A k \in DOMAIN rl :
                       /\ PairLineOk(rl[k])
                       /\ pts[k].lat = parse_single_coord(LatToken(rl[k]), "lat").val
                       /\ pts[k].lon = parse_single_coord(LonToken(rl[k]), "lon").val
           /\ (\E k \in DOMAIN rl : ~PairLineOk(rl[k])) =>
                 /\ pairCall.status = "raised"
                 /\ pairCall.line \in DOMAIN rl
                 /\ ~PairLineOk(rl[pairCall.line])
                 /\ \A k \in 1..(pairCall.line - 1) : PairLineOk(rl[k])
                 /\ (pairCall.err = "comma") = ~HasComma(rl[pairCall.line])
           /\ (pairCall.status = "raised" /\ pairCall.line = 0) =>
                 /\ \A k \in DOMAIN rl : PairLineOk(rl[k])
                 /\ Len(rl) < 2

\* a call that returned two points, the first from a line with two commas
\* split at its first one, the second from a DM line
C19_Witness ==
    /\ pairCall.status = "returned"
    /\ pairCall.raw_lines = <<LineTwoCommas, LineDM>>
    /\ pairCall.points[1] = [lat |-> 440 * 3600, lon |-> 280 * 3600 + 390 * 60]
    /\ pairCall.points[2] = [lat |-> 440 * 3600 + 102 * 60,
                              lon |-> 280 * 3600 + 390 * 60]

----------------------------------------------------------------------------
(* app.py: route_planner (POST), the admin pages of the locations file      *)

\* float(speed_kn_str): the value, or None when float() raises
ParseFloat(str) == IF str.kind = "num" THEN Some(str.v) ELSE None

\* next_id: 1 for an empty list, else the largest id + 1
NextId(rs) ==
    IF rs = << >> THEN 1
    ELSE (CHOOSE m \in {rs[i].id : i \in DOMAIN rs} :
              \A i \in DOMAIN rs : rs[i].id <= m) + 1

Rejected(message) ==
    [status |-> "rejected", calc_result |-> None, calc_error |-> Some(message),
     calc_called |-> FALSE]

\* load_data(), the login check and the speed checks, up to the call of
\* build_route_from_text with a new resolver
SubmitForm(p, uid, speed, text) ==
    /\ pc[p] = "idle"
    /\ Len(routes) < MaxRoutes
    /\    /\ form' = [form EXCEPT ![p] =
                        [user_id |-> uid, speed_kn |-> speed, waypoints |-> text]]
          /\ data' = [data EXCEPT ![p] = [routes |-> routes, voyages |-> voyages]]
          /\ resolver' = [resolver EXCEPT ![p] = NewResolver]
          /\ build' = [build EXCEPT ![p] = IdleBuild]
          /\ trace' = [trace EXCEPT ![p] =
                         IF uid = 0 THEN << >> ELSE <<"speed check">>]
          /\ IF uid = 0
             THEN /\ pc' = [pc EXCEPT ![p] = "done"]
                  /\ outcome' = [outcome EXCEPT ![p] =
                                   [NoOutcome EXCEPT !.status = "login"]]
             ELSE IF speed.kind = "empty"
             THEN /\ pc' = [pc EXCEPT ![p] = "done"]
                  /\ outcome' = [outcome EXCEPT ![p] = Rejected("Speed (kn) is required.")]
             ELSE IF ParseFloat(speed) = None
             THEN /\ pc' = [pc EXCEPT ![p] = "done"]
                  /\ outcome' = [outcome EXCEPT ![p] = Rejected("could not convert string to float")]
             ELSE IF ParseFloat(speed)[1] <= 0
             THEN /\ pc' = [pc EXCEPT ![p] = "done"]
                  /\ outcome' = [outcome EXCEPT ![p] = Rejected("Speed must be > 0 knots.")]
             ELSE /\ pc' = [pc EXCEPT ![p] = "build_call"]
                  /\ outcome' = [outcome EXCEPT ![p] = NoOutcome]
    /\ UNCHANGED <<routes, voyages, locations, readable, direct>>

Submit(p) ==
    \E uid \in UserIds, speed \in SpeedInputs, text \in PlannerTexts :
        SubmitForm(p, uid, speed, text)

NewRoute(p, calc_result) ==
    [id |-> NextId(data[p].routes),
     waypoints_raw |-> form[p].waypoints,
     calc |-> calc_result,
     author_id |-> form[p].user_id,
     status |-> "planned"]

\* the stages of compute_route_warnings: the count check, then the
\* distance of every leg
WarnStages(points) ==
    <<"Warn", "count check">>
    \o (IF Len(points) < 2 THEN << >> ELSE <<"leg computation">>)

\* the stages of compute_route_calculation: the speed check, the count
\* check, then the distance and bearing of every leg
CalcStages(points, speed_kn) ==
    <<"Compute", "speed check">>
    \o (IF speed_kn <= 0 THEN << >>
        ELSE <<"count check">>
             \o (IF Len(points) < 2 THEN << >> ELSE <<"leg computation">>))

\* the calculation called before the warnings
StagesComputeFirst(points, speed_kn) ==
    CalcStages(points, speed_kn) \o WarnStages(points)

\* the calculation without its two guards
StagesUnguarded(points, speed_kn) ==
    WarnStages(points) \o <<"Compute", "leg computation">>

\* route_planner after the build: compute_route_warnings, then
\* compute_route_calculation
StagesAfterBuild(points, speed_kn) ==
    WarnStages(points) \o CalcStages(points, speed_kn)

\* the rest of the try block once the build has returned: warnings, the
\* calculation, the new route appended to the request's data and saved
Finish(p, errors) ==
    /\ pc[p] = "build_ret"
    /\ pc' = [pc EXCEPT ![p] = "done"]
    /\ LET points == [j \in DOMAIN build[p].waypoints |->
                        Point(build[p].waypoints[j].lat, build[p].waypoints[j].lon)]
           speed_kn == ParseFloat(form[p].speed_kn)[1]
           route_warnings == compute_route_warnings(points)
           calc == compute_route_calculation(points, speed_kn)
           calc_result == calc.result[1] @@ [warnings |-> route_warnings]
           saved == Append(data[p].routes, NewRoute(p, Some(calc_result)))
       IN IF errors # << >>
          THEN /\ outcome' = [outcome EXCEPT ![p] = Rejected("build errors")]
               /\ UNCHANGED <<routes, voyages, data, trace>>
          ELSE /\ trace' = [trace EXCEPT ![p] = @ \o StagesAfterBuild(points, speed_kn)]
               /\ IF calc.raised # "none"
                  THEN /\ outcome' = [outcome EXCEPT ![p] =
                                [Rejected(calc.raised) EXCEPT !.calc_called = TRUE]]
                       /\ UNCHANGED <<routes, voyages, data>>
                  ELSE /\ outcome' = [outcome EXCEPT ![p] =
                                [status |-> "accepted", calc_result |-> Some(calc_result),
                                 calc_error |-> None, calc_called |-> TRUE]]
                       /\ data' = [data EXCEPT ![p].routes = saved]
                       /\ routes' = saved
                       /\ voyages' = data[p].voyages
    /\ UNCHANGED <<locations, form, resolver, build, readable, direct>>

\* an exception that left build_route_from_text is caught by the planner's
\* "except Exception as e" and shown as calc_error = str(e)
PlannerExcept(p) ==
    /\ pc[p] = "build_raised"
    /\ pc' = [pc EXCEPT ![p] = "done"]
    /\ outcome' = [outcome EXCEPT ![p] = Rejected("No such file or directory")]
    /\ UNCHANGED <<routes, voyages, locations, form, data, resolver, build,
                   readable, trace, direct>>

\* a planner that accepts the lines that resolved when some line failed
PlannerFinishPartial(p) == Finish(p, << >>)

\* a planner that treats the warnings of the route as errors
PlannerFinishStrict(p) ==
    Finish(p, build[p].errors \o
              compute_route_warnings(
                 [j \in DOMAIN build[p].waypoints |->
                     Point(build[p].waypoints[j].lat, build[p].waypoints[j].lon)]))

PlannerFinish(p) == Finish(p, build[p].errors)

\* the response is sent: the request is over
Respond(p) ==
    /\ pc[p] = "done"
    /\ pc' = [pc EXCEPT ![p] = "idle"]
    /\ form' = [form EXCEPT ![p] = IdleForm]
    /\ data' = [data EXCEPT ![p] = NoData]
    /\ resolver' = [resolver EXCEPT ![p] = NewResolver]
    /\ build' = [build EXCEPT ![p] = IdleBuild]
    /\ outcome' = [outcome EXCEPT ![p] = NoOutcome]
    /\ trace' = [trace EXCEPT ![p] = << >>]
    /\ UNCHANGED <<routes, voyages, locations, readable, direct>>

\* admin_locations (POST) by an admin: add_location(name, lat, lon, display)
AdminAddLocation ==
    /\ \E e \in {LocConstanta, LocFarpoint} :
          locations' = add_location(locations, e.display, e.lat, e.lon, << >>)
    /\ locations' # locations
    /\ readable' = TRUE
    /\ UNCHANGED <<routes, voyages, pc, form, data, resolver, build, outcome,
                   trace, direct>>

\* admin_delete_location by an admin: delete_location(name)
AdminDeleteLocation ==
    /\ \E e \in {LocConstanta, LocFarpoint} :
          locations' = delete_location(locations, e.display)
    /\ locations' # locations
    /\ UNCHANGED <<routes, voyages, pc, form, data, resolver, build, outcome,
                   readable, trace, direct>>

----------------------------------------------------------------------------
(* Spec: the application; requests of the route planner next to the admin   *)
(* pages of the locations file                                             *)

\* the requests that run in Spec: one at a time
Clients == {1}

Init ==
    /\ routes = << >>
    /\ voyages = << >>
    /\ locations = << >>
    /\ pc = [p \in Procs |-> "idle"]
    /\ form = [p \in Procs |-> IdleForm]
    /\ data = [p \in Procs |-> NoData]
    /\ resolver = [p \in Procs |-> NewResolver]
    /\ build = [p \in Procs |-> IdleBuild]
    /\ outcome = [p \in Procs |-> NoOutcome]
    /\ calcArgs = NoCalcArgs
    /\ calcRet = NoCalcRet
    /\ readable \in BOOLEAN
    /\ trace = NoTrace
    /\ warnRet = NoWarnRet
    /\ call = NoCall
    /\ chat = NoChat
    /\ coordCall = NoCoordCall
    /\ pairCall = NoPairCall

Next ==
    \/ \E p \in Clients : Submit(p)
    \/ \E p \in Clients : BuildCall(p)
    \/ \E p \in Clients : BuildLine(p)
    \/ \E p \in Clients : BuildReturn(p)
    \/ \E p \in Clients : PlannerFinish(p)
    \/ \E p \in Clients : PlannerExcept(p)
    \/ \E p \in Clients : Respond(p)
    \/ AdminAddLocation
    \/ AdminDeleteLocation

Spec == Init /\ [][Next]_vars

\* C1: when build_route_from_text has returned a non-empty errors list, the
\* request ends rejected: compute_route_calculation is not called, there is
\* no calculation, and the stored routes (and voyages) are left as they are.
C1_WholeRouteRejection ==
    [][\A p \in Procs :
          (/\ pc[p] = "build_ret"
           /\ build[p].errors # << >>
           /\ pc'[p] # "build_ret")
          => /\ pc'[p] = "done"
             /\ outcome'[p].status = "rejected"
             /\ outcome'[p].calc_result = None
             /\ ~outcome'[p].calc_called
             /\ routes' = routes
             /\ voyages' = voyages]_vars

\* a request that ended after a build with at least 2 valid lines and an
\* unresolvable one
C1_Witness ==
    \E p \in Procs :
        /\ pc[p] = "done"
        /\ build[p].errors # << >>
        /\ Len(build[p].waypoints) >= 2
        /\ outcome[p].status = "rejected"

\* the points of the waypoints of the build of request p
BuildPoints(p) ==
    [j \in DOMAIN build[p].waypoints |->
        Point(build[p].waypoints[j].lat, build[p].waypoints[j].lon)]

StageEvents(p) ==
    SelectSeq(trace[p],
              LAMBDA e : e \in {"Parse", "Resolve", "Validate", "Warn", "Compute"})

CountOf(seq, e) == Cardinality({i \in DOMAIN seq : seq[i] = e})

\* a request by a logged-in user has ended accepted or rejected
EndsAcceptedOrRejected(p) ==
    (pc[p] = "done" /\ form[p].user_id # 0)
    => outcome[p].status \in {"accepted", "rejected"}

PositionsOf(p, e) == {i \in DOMAIN trace[p] : trace[p][i] = e}

ResolverRaised(p) ==
    \E i \in DOMAIN trace[p] : trace[p][i] \in {"resolve raised", "suggest raised"}

\* C15: an exception raised by the resolver during a build call, from
\* resolve or from suggest, leaves build_route_from_text as an exception:
\* the call does not go on or return, the line gets no entry in the errors
\* list, and the failure is not shown where validation errors are shown.
C15_Original ==
    \A p \in Procs :
        ResolverRaised(p) =>
            /\ pc[p] = "build_raised"
            /\ outcome[p].calc_error = None

----------------------------------------------------------------------------
(* SpecEngine: two callers, each calling build_route_from_text with its own *)
(* LocalLocationsResolver over the same locations file and then            *)
(* compute_route_calculation on the waypoints, their steps interleaved      *)

EngineSpeeds == {75, 100}

InitEngine ==
    /\ routes = << >>
    /\ voyages = << >>
    /\ locations \in Directories
    /\ readable \in BOOLEAN
    /\ ~readable => locations = << >>
    /\ pc = [p \in Procs |-> "build_call"]
    /\ \E texts \in [Procs -> PlannerTexts], speeds \in [Procs -> EngineSpeeds] :
          form = [p \in Procs |->
                    [user_id |-> p, speed_kn |-> [kind |-> "num", v |-> speeds[p]],
                     waypoints |-> texts[p]]]
    /\ data = [p \in Procs |-> NoData]
    /\ resolver = [p \in Procs |-> NewResolver]
    /\ build = [p \in Procs |-> IdleBuild]
    /\ outcome = [p \in Procs |-> NoOutcome]
    /\ calcArgs = NoCalcArgs
    /\ calcRet = NoCalcRet
    /\ trace = NoTrace
    /\ warnRet = NoWarnRet
    /\ call = NoCall
    /\ chat = NoChat
    /\ coordCall = NoCoordCall
    /\ pairCall = NoPairCall

\* the caller passes the waypoints of its build to compute_route_calculation
EngineCompute(p) ==
    /\ pc[p] = "build_ret"
    /\ pc' = [pc EXCEPT ![p] = "done"]
    /\ LET calc == compute_route_calculation(BuildPoints(p), form[p].speed_kn.v)
       IN outcome' = [outcome EXCEPT ![p] =
                        [status |-> "computed", calc_result |-> calc.result,
                         calc_error |-> IF calc.raised = "none" THEN None
                                        ELSE Some(calc.raised),
                         calc_called |-> TRUE]]
    /\ UNCHANGED <<routes, voyages, locations, form, data, resolver, build,
                   readable, trace, direct>>

NextEngine ==
    \E p \in Procs :
        \/ BuildCall(p)
        \/ BuildLine(p)
        \/ BuildReturn(p)
        \/ EngineCompute(p)

SpecEngine == InitEngine /\ [][NextEngine]_vars

\* the same call run alone: the state of the loop after k lines, computed
\* from the call's own text, a new resolver and the locations file
RECURSIVE RunAlone(_, _, _, _)
RunAlone(text, file, canRead, k) ==
    IF k = 0
    THEN [b |-> NewBuild(text), r |-> NewResolver, raised |-> FALSE]
    ELSE LET prev == RunAlone(text, file, canRead, k - 1)
         IN IF prev.raised THEN prev
            ELSE LET nxt == LoopBody(prev.b, prev.r, file, canRead)
                 IN [b |-> nxt.b, r |-> nxt.r, raised |-> nxt.raised]

\* what the call run alone returns (raised, or the Route)
ReturnAlone(text, file, canRead) ==
    LET end == RunAlone(text, file, canRead, Len(split_waypoints(text)))
    IN [raised |-> end.raised,
        b |-> [end.b EXCEPT !.warnings =
                  IF Len(end.b.waypoints) < 2 /\ end.b.errors = << >>
                  THEN Append(@, StructuralWarning) ELSE @]]

PointsOf(waypoints) ==
    [j \in DOMAIN waypoints |-> Point(waypoints[j].lat, waypoints[j].lon)]

\* C20: when build and compute calls of two callers interleave, each call
\* is at every step where it would be when run alone on its own text,
\* speed and resolver: the lists it has collected, its resolver's cache, an
\* exception it has raised, the Route it returns and the calculation it
\* returns are those of the call run alone, whatever the other call has done
C20_CallsIndependent ==
    \A p \in Procs :
        LET text == form[p].waypoints
            alone == RunAlone(text, locations, readable, build[p].i)
            ret == ReturnAlone(text, locations, readable)
            calc == compute_route_calculation(PointsOf(ret.b.waypoints),
                                              form[p].speed_kn.v)
        IN /\ pc[p] = "build_loop" =>
                ~alone.raised /\ build[p] = alone.b /\ resolver[p] = alone.r
           /\ pc[p] = "build_raised" =>
                RunAlone(text, locations, readable, build[p].i + 1).raised
           /\ pc[p] \in {"build_ret", "done"} =>
                ~ret.raised /\ build[p] = ret.b
           /\ pc[p] = "done" =>
                /\ outcome[p].calc_result = calc.result
                /\ outcome[p].calc_error =
                      IF calc.raised = "none" THEN None ELSE Some(calc.raised)
           /\ pc[p] # "done" => outcome[p] = NoOutcome

\* both calls are in the middle of their loops at once, each with a line
\* behind it and a line ahead, one having collected an error and the other
\* a waypoint
C20_Witness ==
    /\ pc[1] = "build_loop" /\ pc[2] = "build_loop"
    /\ build[1].i >= 1 /\ build[1].i < Len(build[1].raw_points)
    /\ build[2].i >= 1 /\ build[2].i < Len(build[2].raw_points)
    /\ build[1].errors # << >> /\ build[2].errors = << >>
    /\ build[2].waypoints # << >>

----------------------------------------------------------------------------
(* SpecNav: direct calls haversine_nm(a, b) and bearing_deg(a, b) on a pair *)
(* of points of NavPoints                                                   *)

InitPure(args) ==
    /\ routes = << >>
    /\ voyages = << >>
    /\ locations = << >>
    /\ readable = TRUE
    /\ pc = [p \in Procs |-> "idle"]
    /\ form = [p \in Procs |-> IdleForm]
    /\ data = [p \in Procs |-> NoData]
    /\ resolver = [p \in Procs |-> NewResolver]
    /\ build = [p \in Procs |-> IdleBuild]
    /\ outcome = [p \in Procs |-> NoOutcome]
    /\ calcArgs = NoCalcArgs
    /\ calcRet = NoCalcRet
    /\ trace = NoTrace
    /\ warnRet = NoWarnRet
    /\ coordCall = NoCoordCall
    /\ pairCall = NoPairCall
    /\ chat = NoChat
    /\ call = [fn |-> "none", args |-> args, ret |-> << >>]

\* the outcome of a call: the exception raised ("none": it returns) and the
\* value returned
Returns(v) == [raised |-> "none", value |-> v]

Raises(e) == [raised |-> e, value |-> 0]

PureCall(fn, ret) ==
    /\ call' = [call EXCEPT !.fn = fn, !.ret = ret]
    /\ UNCHANGED <<routes, voyages, locations, pc, form, data, resolver, build,
                   outcome, readable, trace, calcArgs, calcRet, warnRet,
                   coordCall, pairCall, chat>>

InitNav == \E a \in NavPoints, b \in NavPoints : InitPure(<<a, b>>)

CallHaversine ==
    LET a == call.args[1]
        b == call.args[2]
    IN PureCall("haversine_nm",
                IF haversine_raises(a.lat, a.lon, b.lat, b.lon)
                THEN Raises("math domain error")
                ELSE Returns(haversine_nm(a.lat, a.lon, b.lat, b.lon)))

CallBearing ==
    LET a == call.args[1]
        b == call.args[2]
    IN PureCall("bearing_deg", Returns(bearing_deg(a.lat, a.lon, b.lat, b.lon)))

NextNav == CallHaversine \/ CallBearing

SpecNav == InitNav /\ [][NextNav]_vars

\* C21 as stated: every call haversine_nm(a, b) returns a distance, and it
\* is the distance that haversine_nm(b, a) returns
C21_Original ==
    call.fn = "haversine_nm" =>
        LET a == call.args[1]
            b == call.args[2]
        IN /\ call.ret.raised = "none"
           /\ ~haversine_raises(b.lat, b.lon, a.lat, a.lon)
           /\ call.ret.value = haversine_nm(b.lat, b.lon, a.lat, a.lon)

\* a call on two different points has returned the distance of the
\* swapped call
C21_Witness ==
    /\ call.fn = "haversine_nm"
    /\ call.args[1] # call.args[2]
    /\ call.ret.raised = "none"
    /\ call.ret.value > 0
    /\ call.ret.value = haversine_nm(call.args[2].lat, call.args[2].lon,
                                     call.args[1].lat, call.args[1].lon)

\* C22: every call bearing_deg(a, b) returns a value that is at least 0 and
\* below 360 (0.001 degree units: below 360000), also for coincident
\* points, for a pole, and when atan2 gives a negative angle so small that
\* adding 360 gives exactly 360
C22_BearingRange ==
    call.fn = "bearing_deg" =>
        /\ call.ret.raised = "none"
        /\ call.ret.value >= 0
        /\ call.ret.value < 360000

\* a call whose atan2 angle is negative and whose sum with 360 is 360 has
\* returned 0
C22_Witness ==
    /\ call.fn = "bearing_deg"
    /\ LET a == call.args[1]
           b == call.args[2]
           r == NavRow(a.lat, a.lon, b.lat, b.lon)
       IN r[6] < 0 /\ r[7] = 360000
    /\ call.ret.value = 0

----------------------------------------------------------------------------
(* SpecHhmm: one direct call hours_to_hhmm(hours_float)                     *)

MaxHours256 == 300  \* largest hours_float of the calls, in 1/256 hour

\* None, hours that are a whole number of 1/256 hour (floats that are
\* exact, whose product with 60 is exact: 32/256 hour is 7.5 minutes),
\* 1.5 hours, and 100 hours 7.5 minutes
HhmmInputs ==
    {None} \cup {Some(Hours(n, 256)) : n \in 0..MaxHours256}
           \cup {Some(Hours(3, 2)), Some(Hours(25632, 256))}

DigitChars == <<"0", "1", "2", "3", "4", "5", "6", "7", "8", "9">>

\* str(n) for n >= 0, as a sequence of characters
RECURSIVE Str(_)
Str(n) ==
    IF n < 10 THEN <<DigitChars[n + 1]>>
    ELSE Append(Str(n \div 10), DigitChars[(n % 10) + 1])

\* f"{n:02d}" for n >= 0
Format02d(n) == IF n < 10 THEN <<"0">> \o Str(n) ELSE Str(n)

\* the whole function: "-" for None, else f"{h:02d}:{m:02d}"
hours_to_hhmm_str(hours_float) ==
    IF hours_float = None THEN <<"-">>
    ELSE LET hm == hours_to_hhmm(hours_float[1])
         IN Format02d(hm.h) \o <<":">> \o Format02d(hm.m)

InitHhmm == \E h \in HhmmInputs : InitPure(h)

CallHhmm == PureCall("hours_to_hhmm", Returns(hours_to_hhmm_str(call.args)))

NextHhmm == CallHhmm

SpecHhmm == InitHhmm /\ [][NextHhmm]_vars

\* the number a sequence of digit characters writes
RECURSIVE IntOf(_)
IntOf(cs) ==
    IF cs = << >> THEN 0
    ELSE IntOf(SubSeq(cs, 1, Len(cs) - 1)) * 10
         + (CHOOSE d \in 0..9 : DigitChars[d + 1] = cs[Len(cs)])

IsDigits(cs) == \A i \in DOMAIN cs : \E d \in 0..9 : DigitChars[d + 1] = cs[i]

ColonAt(cs) == CHOOSE i \in DOMAIN cs : cs[i] = ":"

\* C23: hours_to_hhmm(None) returns "-"; for h >= 0 it returns digits, one
\* colon, digits: HH has at least two digits and a leading zero only below
\* 10, MM has exactly two digits and is at most 59, and HH * 60 + MM is a
\* whole number of minutes nearest to h * 60 (1.5 gives "01:30", 0 gives
\* "00:00")
C23_HoursToHhmm ==
    call.fn = "hours_to_hhmm" =>
        LET s == call.ret.value
        IN IF call.args = None THEN s = <<"-">>
           ELSE LET h == call.args[1]
                    c == ColonAt(s)
                    hh == SubSeq(s, 1, c - 1)
                    mm == SubSeq(s, c + 1, Len(s))
                    total == IntOf(hh) * 60 + IntOf(mm)
                IN /\ \E i \in DOMAIN s : s[i] = ":"
                   /\ IsDigits(hh) /\ IsDigits(mm)
                   /\ Len(mm) = 2 /\ IntOf(mm) <= 59
                   /\ Len(hh) >= 2
                   /\ Len(hh) > 2 => hh[1] # "0"
                   /\ 2 * (total * h.den - h.num * 60) <= h.den
                   /\ 2 * (h.num * 60 - total * h.den) <= h.den
                   /\ h = Hours(3, 2) => s = <<"0", "1", ":", "3", "0">>
                   /\ h = Hours(0, 256) => s = <<"0", "0", ":", "0", "0">>

\* a call with 60.9375 minutes, nearer to the upper whole minute, has
\* returned "01:01"
C23_Witness ==
    /\ call.fn = "hours_to_hhmm"
    /\ call.args = Some(Hours(260, 256))
    /\ call.ret.value = <<"0", "1", ":", "0", "1">>

----------------------------------------------------------------------------
(* SpecGeo: one direct call _route_coords_for_geojson(route).  The          *)
(* coordinates of a stored calculation are in tenths of a degree, those    *)
(* parsed again from waypoints_raw in 1/36000 degree.                       *)

\* parse_waypoints(text) run to its end
RECURSIVE PairRun(_)
PairRun(c) ==
    IF c.status # "loop" THEN c
    ELSE IF c.i < Len(c.raw_lines) THEN PairRun(PairLoopBody(c))
    ELSE PairLeave(c)

parse_waypoints(text) == PairRun(PairEnter(text))

\* [lat, lon]
GeoCoordLatLon(lat, lon) == <<lat, lon>>

\* GeoJSON: [lon, lat]
GeoCoord(lat, lon) == <<lon, lat>>

_route_coords_for_geojson(route) ==
    LET segments == IF route.calc = None THEN << >> ELSE route.calc[1].segments
        raw == route.waypoints_raw
    IN IF segments # << >>
       THEN Returns(<<GeoCoord(segments[1].from.lat, segments[1].from.lon)>>
                    \o [i \in DOMAIN segments |->
                           GeoCoord(segments[i].to.lat, segments[i].to.lon)])
       ELSE IF \A k \in DOMAIN raw : raw[k] = Blank
       THEN Raises("This route has no waypoints saved yet.")
       ELSE LET c == parse_waypoints(raw)
            IN IF c.status = "raised" THEN Raises(c.err)
               ELSE IF Len(c.points) < 2
               THEN Raises("You need at least 2 waypoints to export GeoJSON.")
               ELSE Returns([i \in DOMAIN c.points |->
                               GeoCoord(c.points[i].lat, c.points[i].lon)])

\* routes stored with a calculation (and the points it was computed from),
\* and routes without one
GeoRoutes ==
    {[route |-> [waypoints_raw |-> <<LineNameUpper>>,
                 calc |-> compute_route_calculation(points, 75).result],
      points |-> points] :
        points \in {ps \in SeqsUpTo(GridPoints, MaxPoints) : Len(ps) >= 2}}
    \cup
    {[route |-> [waypoints_raw |-> text, calc |-> None], points |-> << >>] :
        text \in SeqsUpTo(PairLines, MaxPairLines)}

InitGeo == \E g \in GeoRoutes : InitPure(g)

CallGeoCoords ==
    PureCall("_route_coords_for_geojson",
             _route_coords_for_geojson(call.args.route))

NextGeo == CallGeoCoords

SpecGeo == InitGeo /\ [][NextGeo]_vars

\* C24: for a route stored with a calculation of the points p1..pn the
\* call returns n coordinates, the i-th being [lon, lat] of pi; for a route
\* without a calculation it returns, when every line of waypoints_raw is a
\* strict lat, lon pair and there are at least 2, one [lon, lat] per line
\* in the order of the lines, and raises otherwise
C24_GeoJsonCoords ==
    call.fn = "_route_coords_for_geojson" =>
        LET route == call.args.route
            pts == call.args.points
            ret == call.ret
            rl == RawLinesOf(route.waypoints_raw)
        IN /\ route.calc # None =>
                 /\ ret.raised = "none"
                 /\ Len(ret.value) = Len(pts)
                 /\ \A i \in DOMAIN pts : ret.value[i] = <<pts[i].lon, pts[i].lat>>
           /\ route.calc = None =>
                 IF Len(rl) >= 2 /\ \A k \in DOMAIN rl : PairLineOk(rl[k])
                 THEN /\ ret.raised = "none"
                      /\ Len(ret.value) = Len(rl)
                      /\ \A k \in DOMAIN rl :
                            ret.value[k] =
                              <<parse_single_coord(LonToken(rl[k]), "lon").val,
                                parse_single_coord(LatToken(rl[k]), "lat").val>>
                 ELSE ret.raised # "none"

\* a call on a route stored with a calculation of three different points
\* has returned three coordinates
C24_Witness ==
    /\ call.fn = "_route_coords_for_geojson"
    /\ call.args.route.calc # None
    /\ Len(call.args.points) = 3
    /\ call.args.points[1] # call.args.points[2]
    /\ call.args.points[2] # call.args.points[3]
    /\ call.args.points[1] # call.args.points[3]
    /\ call.ret.raised = "none"
    /\ Len(call.ret.value) = 3

----------------------------------------------------------------------------
(* The locations snapshot of a build, in Spec, where the admin pages change *)
(* the locations file between the lines of a build                          *)

\* a resolver that has loaded the given items
Preloaded(items) ==
    [NewResolver EXCEPT !.loaded = TRUE, !.items = items, !.loads = 1]

\* the loop of build_route_from_text after k lines with the resolver r0,
\* the file out of reach
RECURSIVE RunFrom(_, _, _)
RunFrom(text, r0, k) ==
    IF k = 0
    THEN [b |-> NewBuild(text), r |-> r0]
    ELSE LET prev == RunFrom(text, r0, k - 1)
             nxt == LoopBody(prev.b, prev.r, << >>, FALSE)
         IN [b |-> nxt.b, r |-> nxt.r]

\* C25: a resolver reads the locations file at most once, and once it has,
\* the waypoints and errors of its build call are those of the same lines
\* handled with the loaded items alone, whatever add_location and
\* delete_location have done to the file since
C25_StableSnapshot ==
    \A p \in Procs :
        /\ resolver[p].loads <= 1
        /\ (pc[p] \in {"build_loop", "build_ret"} /\ resolver[p].loaded) =>
              LET run == RunFrom(form[p].waypoints, Preloaded(resolver[p].items),
                                 build[p].i)
              IN /\ build[p].waypoints = run.b.waypoints
                 /\ build[p].errors = run.b.errors
                 /\ resolver[p].resolve_calls = run.r.resolve_calls

\* a build has looked up two name lines and made a waypoint of each, the
\* second from loaded items that the file no longer holds
C25_Witness ==
    \E p \in Procs :
        /\ pc[p] = "build_loop"
        /\ Len(resolver[p].resolve_calls) = 2
        /\ Len(build[p].waypoints) = 3
        /\ resolver[p].items # << >>
        /\ locations = << >>

----------------------------------------------------------------------------
(* The lines of a build call and what each of them yields                   *)

\* the numbers of the lines that have an entry in errors
ErrorLines(p) == {build[p].errors[j].line : j \in DOMAIN build[p].errors}

\* the step of the loop over line build'[p].i added one waypoint at the end
\* and no error, or no waypoint and one or more errors of that line at the
\* end
LineYieldsOne(p) ==
    LET idx == build'[p].i
        w == build[p].waypoints
        e == build[p].errors
        w2 == build'[p].waypoints
        e2 == build'[p].errors
    IN \/ /\ Len(w2) = Len(w) + 1
          /\ SubSeq(w2, 1, Len(w)) = w
          /\ e2 = e
       \/ /\ w2 = w
          /\ Len(e2) > Len(e)
          /\ SubSeq(e2, 1, Len(e)) = e
          /\ \A j \in (Len(e) + 1)..Len(e2) : e2[j].line = idx

\* C26: the loop of build_route_from_text goes through the non-blank lines;
\* each step yields exactly one waypoint, appended, and no error entry, or
\* no waypoint and at least one error entry of that line, appended; so at
\* any time the number of waypoints plus the number of lines that have
\* error entries is the number of lines handled (all non-blank lines when
\* the call returns), and the error entries are in non-decreasing line
\* order
C26_LinesPartitioned ==
    /\ [](\A p \in Procs :
            pc[p] \in {"build_loop", "build_ret"} =>
                /\ build[p].raw_points = NonBlank(p)
                /\ Len(build[p].waypoints) + Cardinality(ErrorLines(p))
                     = build[p].i
                /\ ErrorLines(p) \subseteq 1..build[p].i
                /\ \A j, k \in DOMAIN build[p].errors :
                      j < k => build[p].errors[j].line <= build[p].errors[k].line
                /\ pc[p] = "build_ret" => build[p].i = Len(NonBlank(p)))
    /\ [][\A p \in Procs :
            (pc[p] = "build_loop" /\ build'[p].i = build[p].i + 1)
                => LineYieldsOne(p)]_vars

\* a call has returned one waypoint for three non-blank lines, with three
\* error entries on the two other lines
C26_Witness ==
    \E p \in Procs :
        /\ pc[p] = "build_ret"
        /\ Len(NonBlank(p)) = 3
        /\ Len(build[p].waypoints) = 1
        /\ Len(build[p].errors) = 3
        /\ Cardinality(ErrorLines(p)) = 2

----------------------------------------------------------------------------
(* SpecRace: two requests of the route planner at the same time, each of a  *)
(* logged-in user with a valid speed and two valid waypoint lines.  Each    *)
(* request works on its own load_data() copy and save_data() writes the     *)
(* whole copy back.                                                         *)

RaceText(p) == IF p = 1 THEN <<LineDec1, LineDec2>> ELSE <<LineDec2, LineDec1>>

InitRace ==
    /\ Init
    /\ readable = TRUE

SubmitRace(p) == SubmitForm(p, p, [kind |-> "num", v |-> 100], RaceText(p))

NextRace ==
    \E p \in Procs :
        \/ SubmitRace(p)
        \/ BuildCall(p)
        \/ BuildLine(p)
        \/ BuildReturn(p)
        \/ PlannerFinish(p)
        \/ Respond(p)

SpecRace == InitRace /\ [][NextRace]_vars

\* C27 as stated: a submission that has been accepted is in the stored
\* routes list, and the stored routes have pairwise distinct ids
C27_Original ==
    /\ \A p \in Procs :
          (pc[p] = "done" /\ outcome[p].status = "accepted") =>
              \E i \in DOMAIN routes :
                  /\ routes[i].author_id = form[p].user_id
                  /\ routes[i].waypoints_raw = form[p].waypoints
    /\ \A i, j \in DOMAIN routes : i # j => routes[i].id # routes[j].id

\* both requests have been accepted at the same time and both routes are
\* stored
C27_Witness ==
    /\ \A p \in Procs : pc[p] = "done" /\ outcome[p].status = "accepted"
    /\ \A p \in Procs :
          \E i \in DOMAIN routes : routes[i].author_id = form[p].user_id

----------------------------------------------------------------------------
(* SpecRoutes: accepted route submissions, delete_route and mark_route_done, *)
(* one request at a time, each handler from load_data() to save_data() in   *)
(* one step.  User 1 is an ordinary user, user 2 an admin; session *)
(* 0 is not logged in and session 3 belongs to a user that is no longer in  *)
(* data["users"].                                                           *)

Requesters == {0, 1, 2, 3}

\* g.current_user of a request whose session holds uid
CurrentUser(uid) ==
    IF uid \in {1, 2} THEN Some([id |-> uid, is_admin |-> (uid = 2)]) ELSE None

\* the largest id a route gets
MaxRouteId == MaxRoutes

\* next((r for r in routes if r.get("id") == route_id), None), as an index
RouteIndex(rs, route_id) ==
    IF \E i \in DOMAIN rs : rs[i].id = route_id
    THEN CHOOSE i \in DOMAIN rs :
            rs[i].id = route_id /\ \A j \in 1..(i - 1) : rs[j].id # route_id
    ELSE 0

\* the owner check left out
AllowedAnyUser(uid, route) == TRUE

\* is_admin or is_owner
Allowed(uid, route) ==
    \/ CurrentUser(uid)[1].is_admin
    \/ route.author_id = uid

\* the handler: the routes and voyages it leaves in the file, and its flash
\* message ("login": redirect to the login page)
delete_route(rs, vs, uid, route_id) ==
    LET i == RouteIndex(rs, route_id)
    IN IF uid = 0 \/ CurrentUser(uid) = None
       THEN [routes |-> rs, voyages |-> vs, flash |-> "login"]
       ELSE IF i = 0
       THEN [routes |-> rs, voyages |-> vs, flash |-> "Route not found."]
       ELSE IF ~Allowed(uid, rs[i])
       THEN [routes |-> rs, voyages |-> vs,
             flash |-> "You are not allowed to delete this route."]
       ELSE [routes |-> SelectSeq(rs, LAMBDA r : r.id # route_id),
             voyages |-> vs, flash |-> "Route deleted."]

\* max(vids) + 1, or 1
NextVoyageId(vs) ==
    IF vs = << >> THEN 1
    ELSE (CHOOSE m \in {vs[i].id : i \in DOMAIN vs} :
              \A i \in DOMAIN vs : vs[i].id <= m) + 1

mark_route_done(rs, vs, uid, route_id) ==
    LET i == RouteIndex(rs, route_id)
        route == [rs[i] EXCEPT !.status = "done"]
        already == \E j \in DOMAIN vs : vs[j].source_route_id = route_id
        voyage == [id |-> NextVoyageId(vs), source_route_id |-> route_id,
                   author_id |-> route.author_id, route_snapshot |-> route]
    IN IF uid = 0 \/ CurrentUser(uid) = None
       THEN [routes |-> rs, voyages |-> vs, flash |-> "login"]
       ELSE IF i = 0
       THEN [routes |-> rs, voyages |-> vs, flash |-> "Route not found."]
       ELSE IF ~Allowed(uid, rs[i])
       THEN [routes |-> rs, voyages |-> vs,
             flash |-> "You are not allowed to modify this route."]
       ELSE [routes |-> [rs EXCEPT ![i] = route],
             voyages |-> IF already THEN vs ELSE Append(vs, voyage),
             flash |-> "Route marked as DONE."]

InitRoutes ==
    /\ Init
    /\ readable = TRUE

\* new_route of an accepted submission of "45.0, 29.0" and "44.0 28.0" at
\* 10 knots by user uid
PlannedRoute(rs, uid) ==
    LET points == <<Point(450, 290), Point(440, 280)>>
        calc == compute_route_calculation(points, 100)
    IN [id |-> NextId(rs),
        waypoints_raw |-> <<LineDec1, LineDec2>>,
        calc |-> Some(calc.result[1] @@ [warnings |-> compute_route_warnings(points)]),
        author_id |-> uid,
        status |-> "planned"]

HandlerCall(fn, uid, route_id, after) ==
    /\ routes' = after.routes
    /\ voyages' = after.voyages
    /\ call' = [fn |-> fn, args |-> [uid |-> uid, route_id |-> route_id],
                ret |-> after.flash]
    /\ UNCHANGED <<locations, pc, form, data, resolver, build, outcome,
                   readable, trace, calcArgs, calcRet, warnRet, coordCall,
                   pairCall, chat>>

\* route_planner (POST) of user 1 or 2, accepted
SubmitRoute ==
    /\ Len(routes) < MaxRoutes
    /\ NextId(routes) <= MaxRouteId
    /\ \E uid \in {1, 2} :
          HandlerCall("route_planner", uid, NextId(routes),
                      [routes |-> Append(routes, PlannedRoute(routes, uid)),
                       voyages |-> voyages, flash |-> "accepted"])

DeleteRoute ==
    \E uid \in Requesters, route_id \in 1..MaxRouteId :
        HandlerCall("delete_route", uid, route_id,
                    delete_route(routes, voyages, uid, route_id))

MarkRouteDone ==
    \E uid \in Requesters, route_id \in 1..MaxRouteId :
        HandlerCall("mark_route_done", uid, route_id,
                    mark_route_done(routes, voyages, uid, route_id))

NextRoutes ==
    \/ SubmitRoute
    \/ DeleteRoute
    \/ MarkRouteDone

SpecRoutes == InitRoutes /\ [][NextRoutes]_vars

VoyagesOf(route_id) ==
    {j \in DOMAIN voyages : voyages[j].source_route_id = route_id}

\* C28 as stated: every stored route with status "done" has exactly one
\* voyage with its id as source_route_id, and the route_snapshot of that
\* voyage is that route
C28_Original ==
    \A i \in DOMAIN routes :
        routes[i].status = "done" =>
            /\ Cardinality(VoyagesOf(routes[i].id)) = 1
            /\ \A j \in VoyagesOf(routes[i].id) :
                  voyages[j].route_snapshot = routes[i]

\* mark_route_done has marked a route done and created its voyage: the one
\* voyage stored carries the route's id and the route as its snapshot
C28_Witness ==
    /\ call.fn = "mark_route_done"
    /\ call.ret = "Route marked as DONE."
    /\ Len(voyages) = 1
    /\ \E i \in DOMAIN routes :
          /\ routes[i].id = call.args.route_id
          /\ routes[i].status = "done"
          /\ voyages[1].source_route_id = routes[i].id
          /\ voyages[1].route_snapshot = routes[i]

MaxMessages == 3    \* messages in the chat of the route
MaxMessageId == 4   \* largest message id given out

ChatChars == {" ", "a"}

\* the texts posted: the empty text, blank texts, texts with spaces around
ChatTexts == {<< >>} \cup {<<c>> : c \in ChatChars}
                 \cup {<<c, d>> : c \in ChatChars, d \in ChatChars}

\* the posting users: the name in the session and the user id
ChatAuthors == {[author |-> "", author_id |-> 1],
                [author |-> "ana", author_id |-> 2]}

\* the ids asked to be deleted: present ones, absent ones
ChatMsgIds == 0..(MaxMessageId + 1)

RECURSIVE LStrip(_)
LStrip(t) == IF t # << >> /\ Head(t) = " " THEN LStrip(Tail(t)) ELSE t

RECURSIVE RStrip(_)
RStrip(t) ==
    IF t # << >> /\ t[Len(t)] = " " THEN RStrip(SubSeq(t, 1, Len(t) - 1)) ELSE t

\* (text or "").strip()
clean_text(text) == RStrip(LStrip(text))

\* the id taken from the length of the list
next_message_id_by_length(c) == Len(c) + 1

\* 1 for an empty chat, else the id of the last message plus one (every
\* stored id is an int)
next_message_id(c) == IF c = << >> THEN 1 ELSE c[Len(c)].id + 1

\* the chat the call leaves in route["chat"], and the (ok, error) it returns
add_route_message(c, author, author_id, text) ==
    LET msg_text == clean_text(text)
    IN IF msg_text = << >>
       THEN [chat |-> c, ret |-> <<FALSE, "Empty message.">>]
       ELSE [chat |-> Append(c, [id |-> next_message_id(c),
                                 author |-> IF author = "" THEN "user"
                                            ELSE author,
                                 author_id |-> author_id,
                                 text |-> msg_text]),
             ret |-> <<TRUE, None>>]

\* the chat without the messages of that id, and whether its length changed
delete_route_message(c, msg_id) ==
    LET kept == SelectSeq(c, LAMBDA m : m.id # msg_id)
    IN [chat |-> kept, ret |-> (Len(kept) # Len(c))]

InitChat == InitPure(<< >>)

ChatCall(fn, args, after) ==
    /\ chat' = after.chat
    /\ call' = [fn |-> fn, args |-> args, ret |-> after.ret]
    /\ UNCHANGED <<routes, voyages, locations, pc, form, data, resolver, build,
                   outcome, readable, trace, calcArgs, calcRet, warnRet,
                   coordCall, pairCall>>

AddRouteMessage ==
    \E u \in ChatAuthors, text \in ChatTexts :
        /\ Len(chat) < MaxMessages
        /\ next_message_id(chat) <= MaxMessageId
        /\ ChatCall("add_route_message",
                    [author_id |-> u.author_id, text |-> text],
                    add_route_message(chat, u.author, u.author_id, text))

DeleteRouteMessage ==
    \E msg_id \in ChatMsgIds :
        ChatCall("delete_route_message", [msg_id |-> msg_id],
                 delete_route_message(chat, msg_id))

NextChat == AddRouteMessage \/ DeleteRouteMessage

SpecChat == InitChat /\ [][NextChat]_vars

\* C29: the ids in the chat are strictly increasing in list order; a call
\* of add_route_message with a text that is empty after stripping returns
\* (False, "Empty message.") and leaves the chat as it was, any other
\* appends one message; delete_route_message returns True exactly when a
\* message with that id was in the chat, and the chat it leaves is the chat
\* before without that one message, the others in their order
C29_ChatIds ==
    /\ [](\A i \in DOMAIN chat, j \in DOMAIN chat :
            i < j => chat[i].id < chat[j].id)
    /\ [][/\ call'.fn = "add_route_message" =>
               IF \A k \in DOMAIN call'.args.text : call'.args.text[k] = " "
               THEN call'.ret[1] = FALSE /\ chat' = chat
               ELSE /\ call'.ret = <<TRUE, None>>
                    /\ Len(chat') = Len(chat) + 1
                    /\ SubSeq(chat', 1, Len(chat)) = chat
          /\ call'.fn = "delete_route_message" =>
               LET msg_id == call'.args.msg_id
                   present == {i \in DOMAIN chat : chat[i].id = msg_id}
               IN /\ call'.ret = (present # {})
                  /\ Len(chat') = Len(chat) - (IF present # {} THEN 1 ELSE 0)
                  /\ chat' = SelectSeq(chat, LAMBDA m : m.id # msg_id)]_vars

\* after additions and deletions the chat holds two messages whose ids are
\* not consecutive, the last with the largest id given out, and the last
\* call was a deletion that returned True
C29_Witness ==
    /\ call.fn = "delete_route_message"
    /\ call.ret = TRUE
    /\ Len(chat) = 2
    /\ chat[1].id + 1 < chat[2].id
    /\ chat[2].id = MaxMessageId

====
